---- MODULE Spec2Model ----
(***************************************************************************)
(* Model of the download engine of WcofunDownloader                        *)
(* (src/server/services/downloader.ts) over the in-memory record store     *)
(* (src/server/storage.ts).                                                *)
(*                                                                         *)
(* Scheduling.  The engine runs on one JavaScript event loop.  Every       *)
(* method of MemStorage is an async function without an await of its own,  *)
(* so its effect happens at the call and `await storage.x()` suspends the  *)
(* caller only until the microtask queue drains: no request, timer or      *)
(* network event is handled in between.  An action of this model is the    *)
(* code run by one such event: startDownload and resumeDownload up to the  *)
(* issued fetch, pauseDownload, the arrival of the response, one chunk,    *)
(* the end of the stream, a rejection.  cancelDownload issues the abort    *)
(* and then awaits storage: the rejection of the aborted fetch may be      *)
(* delivered as a microtask before cancelDownload continues, so it is two  *)
(* actions with only the rejection handlers allowed in between.            *)
(* The fetch library is not part of the repository: when the rejection of  *)
(* an aborted fetch is delivered is left open (any later moment).          *)
(***************************************************************************)
EXTENDS Integers, Sequences, FiniteSets, TLC

\* ------------------------------------------------------------------ bounds
\* calls of startDownload, pauseDownload, resumeDownload and cancelDownload
MaxCalls == 3
\* bytes of a media file
MediaSize == 2
\* POST /api/fetch-url requests waiting for a page at the same time
MaxPending == 2
\* series records, and episode records, ever created
MaxRecords == 3

\* ------------------------------------------------------- program constants
\* `timeDiff >= 1000`: the time between two persisted samples, in ticks of
\* the model's clock (one tick is 1000 ms)
SampleInterval == 1

Null == 0 - 1
NoPath == << >>
MediaUrl == "https://cdn/ep.mp4"
\* Math.floor(x / 0) for x > 0
Infinity == 1000000
\* the controller of an invocation that has ended: abort() on it does nothing
EndedController == 0

\* the Transfer ids, MediaItem ids and invocation slots the model follows
Ids == {1}
\* the Transfer ids followed when two Transfers are in play
PairIds == {1, 2}
EpisodeIds == {1, 2}
SeriesIds == {1}
\* the status a creation request may carry, and the downloadPath it may name
RequestStatuses == {"queued", "completed"}
DownloadPaths == {NoPath, <<"d">>}
TaskIds == 1 .. MaxCalls

VARIABLES
    downloadsMap,      \* MemStorage.downloadsMap: id -> Download
    downloadCurrentId, \* MemStorage.downloadCurrentId
    episodesMap,       \* MemStorage.episodesMap: id -> Episode
    seriesMap,         \* MemStorage.seriesMap: id -> Series
    activeDownloads,   \* the module-level handle map: id -> handle
    tasks,             \* the invocations of downloadFile, in order of creation
    files,             \* the file system under downloads/: path -> length
    pendingCancel,     \* cancelDownload suspended at `await storage.getDownload`
    hist,              \* per id, the calls that returned: <<[op, ret, was]>>
    timers,            \* the ids whose startDownload a route has scheduled
    batch,             \* the series branch of POST /api/downloads, while it loops
    response,          \* what POST /api/downloads/control answered last
    seriesCurrentId,   \* MemStorage.seriesCurrentId
    episodeCurrentId,  \* MemStorage.episodeCurrentId
    fetches,           \* the POST /api/fetch-url requests waiting for a page
    arg,               \* the argument a function of the scraper is applied to
    result             \* what it returned

vars == <<downloadsMap, downloadCurrentId, episodesMap, seriesMap, activeDownloads,
          tasks, files, pendingCancel, hist, timers, batch, response,
          seriesCurrentId, episodeCurrentId, fetches, arg, result>>

\* the variables of POST /api/fetch-url and of the scraper
webVars == <<seriesCurrentId, episodeCurrentId, fetches, arg, result>>
routeVars == <<timers, batch, response, webVars>>

\* ------------------------------------------------------------ path names
Hostile == {"/", "\\", "?", "%", "*", ":", "|", "\"", "<", ">"}
Whitespace == {" ", "\t"}

UpperCase == <<"A", "B", "C", "D", "E", "F", "G", "H", "I", "J", "K", "L", "M",
               "N", "O", "P", "Q", "R", "S", "T", "U", "V", "W", "X", "Y", "Z">>
LowerCase == <<"a", "b", "c", "d", "e", "f", "g", "h", "i", "j", "k", "l", "m",
               "n", "o", "p", "q", "r", "s", "t", "u", "v", "w", "x", "y", "z">>

toLowerCase(c) ==
    IF \E k \in 1 .. Len(UpperCase) : UpperCase[k] = c
    THEN LowerCase[CHOOSE k \in 1 .. Len(UpperCase) : UpperCase[k] = c]
    ELSE c

\* .replace(/[/\\?%*:|"<>]/, '-'): without the g flag only the first one is replaced
RECURSIVE replaceHostile_FirstOnly(_)
replaceHostile_FirstOnly(s) ==
    IF s = << >> THEN << >>
    ELSE IF Head(s) \in Hostile THEN <<"-">> \o Tail(s)
    ELSE <<Head(s)>> \o replaceHostile_FirstOnly(Tail(s))

\* .replace(/[/\\?%*:|"<>]/g, '-')
RECURSIVE replaceHostile(_)
replaceHostile(s) ==
    IF s = << >> THEN << >>
    ELSE <<IF Head(s) \in Hostile THEN "-" ELSE Head(s)>> \o replaceHostile(Tail(s))

\* .replace(/\s+/g, '-'): a run of whitespace becomes one hyphen
RECURSIVE replaceSpaces(_)
replaceSpaces(s) ==
    IF s = << >> THEN << >>
    ELSE IF Head(s) \in Whitespace
         THEN IF Len(s) > 1 /\ s[2] \in Whitespace
              THEN replaceSpaces(Tail(s))
              ELSE <<"-">> \o replaceSpaces(Tail(s))
         ELSE <<Head(s)>> \o replaceSpaces(Tail(s))

sanitizePathName(name) ==
    LET t == replaceSpaces(replaceHostile(name))
    IN  [k \in 1 .. Len(t) |-> toLowerCase(t[k])]

\* downloads/<series>/season-<n>/episode-<m>.mp4
FilePathOf(series, episode) ==
    << sanitizePathName(series.title),
       IF episode.season = Null \/ episode.season = 0 THEN 1 ELSE episode.season,
       IF episode.episodeNumber = Null THEN 0 ELSE episode.episodeNumber >>

\* ---------------------------------------------------------------- storage
\* { ...download, ...data }
Merge(r, data) == [f \in DOMAIN r |-> IF f \in DOMAIN data THEN data[f] ELSE r[f]]

updateDownload(dm, id, data) ==
    IF id \in DOMAIN dm THEN [dm EXCEPT ![id] = Merge(@, data)] ELSE dm

\* MemStorage.createDownload with the status taken from the request
NewDownload_KeepStatus(insertDownload) ==
    [ episodeId |-> insertDownload.episodeId, status |-> insertDownload.status,
      progress |-> 0, totalSize |-> Null, downloadedSize |-> 0, speed |-> Null,
      filePath |-> insertDownload.filePath, error |-> "" ]

\* MemStorage.createDownload: the record made from the request insertDownload
NewDownload(insertDownload) ==
    [ episodeId |-> insertDownload.episodeId, status |-> "queued",
      progress |-> 0, totalSize |-> Null, downloadedSize |-> 0, speed |-> Null,
      filePath |-> insertDownload.filePath, error |-> "" ]

MapSet(m, k, v) == [x \in DOMAIN m \cup {k} |-> IF x = k THEN v ELSE m[x]]
MapDelete(m, k) == [x \in DOMAIN m \ {k} |-> m[x]]
MapDeleteAll(m, K) == [x \in DOMAIN m \ K |-> m[x]]

\* ------------------------------------------------------------------ tasks
Live(t) == t.pc \in {"fetch", "stream"}

\* the slot of an invocation that has ended, or of none yet
FreeTask ==
    [ downloadId |-> 0, pc |-> "free", aborted |-> FALSE, origin |-> "none",
      diskAtSpawn |-> 0, filePath |-> NoPath, snapTotalSize |-> Null,
      resumePosition |-> 0, totalSize |-> 0, downloadedBytes |-> 0, timeDiff |-> 0,
      lastBytes |-> 0, delivered |-> 0, linked |-> FALSE, flags |-> "none" ]

\* AbortController.abort(): only a fetch still in flight is affected
Abort(ts, c) ==
    IF c \in TaskIds /\ Live(ts[c]) THEN [ts EXCEPT ![c].aborted = TRUE] ELSE ts

FreeSlots == {t \in TaskIds : tasks[t].pc = "free"}
NewSlot == CHOOSE t \in FreeSlots : \A u \in FreeSlots : t <= u

\* ------------------------------------------------------------------- Init
\* one series with two episodes: the media URL of episode 1 is resolved,
\* that of episode 2 is not
NoBatch == [all |-> << >>, todo |-> << >>, seen |-> << >>]

\* no record: what getDownload gives for an id that has none
NoRecord == [status |-> "none"]
NoResponse == [code |-> 0, downloadId |-> 0, action |-> "none", download |-> NoRecord]

\* the page URLs of the site, as the characters of the string
Site == <<"h", "t", "t", "p", "s", ":", "/", "/", "w">>
SeriesUrl == Site \o <<"/", "a", "n", "i", "m", "e", "/", "s">>
EpisodeUrl(n) == Site \o <<"/", "w", "a", "t", "c", "h", "/", "e",
                           IF n = 1 THEN "1" ELSE "2">>
SeriesTitle == <<"M", "y", " ", "S">>

\* one series with two episodes, whose media URLs are url1 and url2 ("": not
\* resolved)
Episodes(url1, url2) ==
       (1 :> [seriesId |-> 1, season |-> 1, episodeNumber |-> 1, downloadUrl |-> url1,
              sourceUrl |-> EpisodeUrl(1)])
    @@ (2 :> [seriesId |-> 1, season |-> 1, episodeNumber |-> 2, downloadUrl |-> url2,
              sourceUrl |-> EpisodeUrl(2)])

\* the Registry after the series page was resolved once
Registry(url1, url2) ==
    /\ seriesMap = (1 :> [title |-> SeriesTitle, sourceUrl |-> SeriesUrl])
    /\ episodesMap = Episodes(url1, url2)
    /\ seriesCurrentId = 2
    /\ episodeCurrentId = 3

\* no function of the scraper was applied yet
NoArg == [fn |-> "none"]
NoResult == [fn |-> "none"]

InitStore ==
    /\ downloadsMap = << >>
    /\ downloadCurrentId = 1
    /\ fetches = << >>
    /\ result = NoResult
    /\ activeDownloads = << >>
    /\ tasks = [t \in TaskIds |-> FreeTask]
    /\ files = << >>
    /\ pendingCancel = << >>
    /\ timers = {}
    /\ batch = NoBatch
    /\ response = NoResponse

Init ==
    /\ InitStore
    /\ arg = NoArg
    /\ Registry(MediaUrl, "")
    /\ hist = [i \in Ids |-> << >>]

\* --------------------------------------------------------------- helpers
\* a request, timer or network event is handled only when no continuation is queued
Idle == pendingCancel = << >>

RECURSIVE SumLen(_, _)
SumLen(h, S) == IF S = {} THEN 0
                ELSE LET i == CHOOSE x \in S : TRUE IN Len(h[i]) + SumLen(h, S \ {i})
\* the calls made so far; the model follows MaxCalls of them
CanCall == Idle /\ SumLen(hist, DOMAIN hist) < MaxCalls

StatusOf(id) == IF id \in DOMAIN downloadsMap THEN downloadsMap[id].status ELSE "none"

\* the call returns ret; was is the persisted status it found
Returned(id, op, ret) ==
    hist' = [hist EXCEPT ![id] = Append(@, [op |-> op, ret |-> ret, was |-> StatusOf(id)])]

\* ------------------------------------------------------------ downloadFile
\* downloadFile up to the awaited fetch (lines 172-205), run on the records dm
\* left by its caller: the new invocation and the handle it registers.
resumePositionAt(download, filePath) ==
    IF download.status = "paused" /\ filePath \in DOMAIN files THEN files[filePath] ELSE 0

SpawnTask(id, dm, filePath, origin) ==
    [ downloadId |-> id, pc |-> "fetch", aborted |-> FALSE, origin |-> origin,
      diskAtSpawn |-> IF filePath \in DOMAIN files THEN files[filePath] ELSE 0,
      filePath |-> filePath, snapTotalSize |-> dm[id].totalSize,
      resumePosition |-> resumePositionAt(dm[id], filePath),
      totalSize |-> 0, downloadedBytes |-> 0, timeDiff |-> 0, lastBytes |-> 0,
      delivered |-> 0, linked |-> FALSE, flags |-> "none" ]

downloadFile(id, dm, filePath, origin) ==
    LET t == SpawnTask(id, dm, filePath, origin)
    IN  /\ FreeSlots # {}
        /\ tasks' = [tasks EXCEPT ![NewSlot] = t]
        /\ activeDownloads' = MapSet(activeDownloads, id,
               [abortController |-> NewSlot, resumePosition |-> t.resumePosition,
                stream |-> FALSE])

\* the Range header of the request: bytes=<resumePosition>- , or none
RangeOf(t) == IF t.resumePosition > 0 THEN t.resumePosition ELSE Null

\* ---------------------------------------------------------- createDownload
\* path.join(downloadPath, `episode-<m>.mp4`), or undefined without downloadPath
HintPath(downloadPath, e) ==
    IF downloadPath = NoPath \/ e \notin DOMAIN episodesMap THEN NoPath
    ELSE <<downloadPath, Null, episodesMap[e].episodeNumber>>

\* the record is made from insertDownload and its start is scheduled
createDownload(insertDownload) ==
    /\ Idle
    /\ downloadCurrentId \in DOMAIN hist
    /\ insertDownload.episodeId \in DOMAIN episodesMap
    /\ downloadsMap' = MapSet(downloadsMap, downloadCurrentId, NewDownload(insertDownload))
    /\ downloadCurrentId' = downloadCurrentId + 1
    /\ timers' = timers \cup {downloadCurrentId}
    /\ UNCHANGED <<batch, response, webVars>>
    /\ UNCHANGED <<episodesMap, seriesMap, activeDownloads, tasks, files,
                   pendingCancel, hist>>

\* the forced refresh of a series removes every episode of it
deleteEpisodes(sid) ==
    /\ UNCHANGED routeVars
    /\ Idle
    /\ sid \in DOMAIN seriesMap
    /\ \E e \in DOMAIN episodesMap : episodesMap[e].seriesId = sid
    /\ episodesMap' = [e \in {x \in DOMAIN episodesMap : episodesMap[x].seriesId # sid}
                          |-> episodesMap[e]]
    /\ UNCHANGED <<downloadsMap, downloadCurrentId, seriesMap, activeDownloads, tasks,
                   files, pendingCancel, hist>>

\* ----------------------------------------------------------- startDownload
\* the checks of startDownload without the test of the media URL
StartError_NoUrlCheck(id) ==
    IF id \notin DOMAIN downloadsMap THEN "Error"
    ELSE LET e == downloadsMap[id].episodeId
         IN  IF e \notin DOMAIN episodesMap THEN "Error"
             ELSE IF episodesMap[e].seriesId \notin DOMAIN seriesMap
                  THEN "Error"
             ELSE ""

\* the error startDownload throws before it touches the record, "" if none
StartError(id) ==
    IF id \notin DOMAIN downloadsMap THEN "Error"
    ELSE LET e == downloadsMap[id].episodeId
         IN  IF e \notin DOMAIN episodesMap THEN "Error"
             ELSE IF episodesMap[e].downloadUrl = "" THEN "Error"
             ELSE IF episodesMap[e].seriesId \notin DOMAIN seriesMap
                  THEN "Error"
             ELSE ""

\* the path startDownload writes, were a path stored at creation kept
StartPath_KeepHint(download, series, episode) ==
    IF download.filePath # NoPath THEN download.filePath ELSE FilePathOf(series, episode)

\* lines 54-63: the path startDownload writes; the stored filePath is not read
StartPath(download, series, episode) == FilePathOf(series, episode)

startDownload(id) ==
    /\ UNCHANGED <<batch, response, webVars>>
    /\ CanCall
    /\ Returned(id, "start", TRUE)
    /\ IF StartError(id) # ""
       THEN /\ downloadsMap' = updateDownload(downloadsMap, id,
                                   [status |-> "error", error |-> StartError(id)])
            /\ UNCHANGED <<activeDownloads, tasks>>
       ELSE LET episode  == episodesMap[downloadsMap[id].episodeId]
                filePath == StartPath(downloadsMap[id], seriesMap[episode.seriesId], episode)
                dm       == updateDownload(downloadsMap, id,
                                [filePath |-> filePath, status |-> "downloading"])
            IN  /\ downloadsMap' = dm
                /\ downloadFile(id, dm, filePath, "start")
    /\ UNCHANGED <<downloadCurrentId, episodesMap, seriesMap, files,
                   pendingCancel>>

\* POST /api/downloads calls startDownload once for the Transfer it created,
\* at once (an episode) or from a timer (a series)
StartTransfer(id) ==
    /\ id \in timers
    /\ timers' = timers \ {id}
    /\ startDownload(id)

\* ----------------------------------------------------------- pauseDownload
\* pauseDownload with the status written before the handle is looked up
pauseDownload_StatusFirst(id) ==
    /\ UNCHANGED <<timers, batch, webVars>>
    /\ CanCall
    /\ downloadsMap' = updateDownload(downloadsMap, id, [status |-> "paused"])
    /\ IF id \notin DOMAIN activeDownloads
       THEN /\ Returned(id, "pause", FALSE)
            /\ UNCHANGED tasks
       ELSE /\ tasks' = Abort(tasks, activeDownloads[id].abortController)
            /\ Returned(id, "pause", TRUE)
    /\ UNCHANGED <<downloadCurrentId, episodesMap, seriesMap, activeDownloads, files,
                   pendingCancel>>

pauseDownload(id) ==
    /\ UNCHANGED <<timers, batch, webVars>>
    /\ CanCall
    /\ IF id \notin DOMAIN activeDownloads
       THEN /\ Returned(id, "pause", FALSE)
            /\ UNCHANGED <<downloadsMap, tasks>>
       ELSE /\ tasks' = Abort(tasks, activeDownloads[id].abortController)
            /\ downloadsMap' = updateDownload(downloadsMap, id, [status |-> "paused"])
            /\ Returned(id, "pause", TRUE)
    /\ UNCHANGED <<downloadCurrentId, episodesMap, seriesMap, activeDownloads, files,
                   pendingCancel>>

\* ---------------------------------------------------------- resumeDownload
\* the guard of resumeDownload without the test of the status
ResumeRefused_AnyStatus(id) ==
    \/ id \notin DOMAIN downloadsMap
    \/ downloadsMap[id].episodeId \notin DOMAIN episodesMap
    \/ episodesMap[downloadsMap[id].episodeId].downloadUrl = ""

ResumeRefused(id) ==
    \/ id \notin DOMAIN downloadsMap
    \/ downloadsMap[id].status # "paused"
    \/ downloadsMap[id].episodeId \notin DOMAIN episodesMap
    \/ episodesMap[downloadsMap[id].episodeId].downloadUrl = ""

resumeDownload(id) ==
    /\ UNCHANGED <<timers, batch, webVars>>
    /\ CanCall
    /\ IF ResumeRefused(id)
       THEN /\ Returned(id, "resume", FALSE)
            /\ UNCHANGED <<downloadsMap, activeDownloads, tasks>>
       ELSE LET dm == updateDownload(downloadsMap, id, [status |-> "downloading"])
            IN  /\ downloadsMap' = dm
                /\ downloadFile(id, dm, downloadsMap[id].filePath, "resume")
                /\ Returned(id, "resume", TRUE)
    /\ UNCHANGED <<downloadCurrentId, episodesMap, seriesMap, files,
                   pendingCancel>>

\* ---------------------------------------------------------- cancelDownload
\* lines 138-153: abort, close, drop the handle, read the record, then suspend
cancelBegin(id) ==
    /\ UNCHANGED <<timers, batch, webVars>>
    /\ CanCall
    /\ tasks' = IF id \in DOMAIN activeDownloads
                THEN Abort(tasks, activeDownloads[id].abortController)
                ELSE tasks
    /\ activeDownloads' = MapDelete(activeDownloads, id)
    /\ pendingCancel' = << [ id |-> id,
                             filePath |-> IF id \in DOMAIN downloadsMap
                                          THEN downloadsMap[id].filePath ELSE NoPath ] >>
    /\ UNCHANGED <<downloadsMap, downloadCurrentId, episodesMap, seriesMap, files,
                   hist>>

\* fs.unlinkSync: the path is gone; a stream still open on it writes to no path
Unlink(ts, p) == [k \in DOMAIN ts |-> IF ts[k].filePath = p
                                      THEN [ts[k] EXCEPT !.linked = FALSE] ELSE ts[k]]

\* lines 154-166: delete the file the record named, mark the record cancelled
cancelFinish ==
    /\ UNCHANGED <<timers, batch, webVars>>
    /\ pendingCancel # << >>
    /\ LET c == pendingCancel[1]
           unlink == c.filePath # NoPath /\ c.filePath \in DOMAIN files
       IN  /\ files' = IF unlink THEN MapDelete(files, c.filePath) ELSE files
           /\ tasks' = IF unlink THEN Unlink(tasks, c.filePath) ELSE tasks
           /\ downloadsMap' = updateDownload(downloadsMap, c.id,
                  [status |-> "cancelled", progress |-> 0, downloadedSize |-> 0])
           /\ Returned(c.id, "cancel", TRUE)
    /\ pendingCancel' = << >>
    /\ UNCHANGED <<downloadCurrentId, episodesMap, seriesMap, activeDownloads>>

\* ------------------------------------------- downloadFile: the response
\* lines 202-237: the response arrived with a 2xx status
fetchResponse(t, hasLength) ==
    /\ UNCHANGED routeVars
    /\ Idle
    /\ tasks[t].pc = "fetch" /\ ~tasks[t].aborted
    /\ tasks[t].resumePosition <= MediaSize
    /\ LET T  == tasks[t]
           id == T.downloadId
           contentLength == IF hasLength THEN MediaSize - T.resumePosition ELSE 0
           totalSize == T.resumePosition + contentLength
           flags == IF T.resumePosition > 0 THEN "a" ELSE "w"
       IN  /\ downloadsMap' = IF T.snapTotalSize = Null \/ T.snapTotalSize = 0
                              THEN updateDownload(downloadsMap, id, [totalSize |-> totalSize])
                              ELSE downloadsMap
           /\ files' = IF flags = "w" \/ T.filePath \notin DOMAIN files
                       THEN MapSet(files, T.filePath, 0)
                       ELSE files
           /\ tasks' = [tasks EXCEPT ![t] =
                  [T EXCEPT !.pc = "stream", !.totalSize = totalSize,
                            !.downloadedBytes = T.resumePosition,
                            !.lastBytes = T.resumePosition,
                            !.linked = TRUE, !.flags = flags]]
           /\ activeDownloads' = MapSet(activeDownloads, id,
                  [abortController |-> t, resumePosition |-> T.resumePosition,
                   stream |-> TRUE])
    /\ UNCHANGED <<downloadCurrentId, episodesMap, seriesMap,
                   pendingCancel, hist>>

\* the outer catch without the removal of the handle
OuterCatch_KeepHandle(t, message) ==
    /\ UNCHANGED routeVars
    /\ downloadsMap' = updateDownload(downloadsMap, tasks[t].downloadId,
                           [status |-> "error", error |-> message])
    /\ tasks' = [tasks EXCEPT ![t] = FreeTask]
    /\ UNCHANGED <<downloadCurrentId, episodesMap, seriesMap, files,
                   pendingCancel, hist, activeDownloads>>

\* the outer catch without the update of the record
OuterCatch_KeepStatus(t, message) ==
    /\ UNCHANGED routeVars
    /\ activeDownloads' = MapDelete(activeDownloads, tasks[t].downloadId)
    /\ tasks' = [tasks EXCEPT ![t] = FreeTask]
    /\ UNCHANGED <<downloadsMap, downloadCurrentId, episodesMap, seriesMap, files,
                   pendingCancel, hist>>

\* the outer catch, lines 314-323
OuterCatch(t, message) ==
    /\ UNCHANGED routeVars
    /\ activeDownloads' = MapDelete(activeDownloads, tasks[t].downloadId)
    /\ downloadsMap' = updateDownload(downloadsMap, tasks[t].downloadId,
                           [status |-> "error", error |-> message])
    /\ tasks' = [tasks EXCEPT ![t] = FreeTask]
    /\ UNCHANGED <<downloadCurrentId, episodesMap, seriesMap, files,
                   pendingCancel, hist>>

\* the fetch fails, or answers with a status that is neither 2xx nor 206
fetchFail(t) ==
    /\ Idle
    /\ tasks[t].pc = "fetch" /\ ~tasks[t].aborted
    /\ OuterCatch(t, "Error")

\* the awaited fetch rejects with AbortError
fetchAborted(t) ==
    /\ tasks[t].pc = "fetch" /\ tasks[t].aborted
    /\ OuterCatch(t, "AbortError")

\* ------------------------------------------- downloadFile: processChunk
\* Math.floor((downloadedBytes / totalSize) * 100)
Progress(downloadedBytes, totalSize) ==
    IF totalSize = 0 THEN Infinity ELSE (downloadedBytes * 100) \div totalSize

\* fileStream.write at the stream's own position ('w') or at the end ('a')
WriteFile(fs, T, n) ==
    IF ~T.linked \/ T.filePath \notin DOMAIN fs THEN fs
    ELSE LET len == fs[T.filePath]
             pos == (T.downloadedBytes - T.resumePosition) + n
         IN  [fs EXCEPT ![T.filePath] =
                 IF T.flags = "a" THEN len + n ELSE IF pos > len THEN pos ELSE len]

\* processChunk with the record written on every chunk
chunk_EveryChunk(t, n, adv) ==
    /\ UNCHANGED routeVars
    /\ Idle
    /\ tasks[t].pc = "stream" /\ ~tasks[t].aborted
    /\ n \in 1 .. ((MediaSize - tasks[t].resumePosition) - tasks[t].delivered)
    /\ adv \in 0 .. (SampleInterval - tasks[t].timeDiff)
    /\ LET T  == tasks[t]
           downloadedBytes == T.downloadedBytes + n
           timeDiff == T.timeDiff + adv
           speed == IF timeDiff = 0 THEN Infinity
                    ELSE ((downloadedBytes - T.lastBytes) * SampleInterval) \div timeDiff
       IN  /\ files' = WriteFile(files, T, n)
           /\ downloadsMap' = updateDownload(downloadsMap, T.downloadId,
                  [progress |-> Progress(downloadedBytes, T.totalSize),
                   downloadedSize |-> downloadedBytes, speed |-> speed])
           /\ tasks' = [tasks EXCEPT ![t] =
                  [T EXCEPT !.downloadedBytes = downloadedBytes,
                            !.delivered = T.delivered + n,
                            !.timeDiff = 0, !.lastBytes = downloadedBytes]]
    /\ UNCHANGED <<downloadCurrentId, episodesMap, seriesMap, activeDownloads,
                   pendingCancel, hist>>

\* lines 256-287: a chunk of n bytes, adv ticks after the previous one
chunk(t, n, adv) ==
    /\ UNCHANGED routeVars
    /\ Idle
    /\ tasks[t].pc = "stream" /\ ~tasks[t].aborted
    /\ n \in 1 .. ((MediaSize - tasks[t].resumePosition) - tasks[t].delivered)
    /\ adv \in 0 .. (SampleInterval - tasks[t].timeDiff)
    /\ LET T  == tasks[t]
           downloadedBytes == T.downloadedBytes + n
           timeDiff == T.timeDiff + adv
           speed == ((downloadedBytes - T.lastBytes) * SampleInterval) \div timeDiff
       IN  /\ files' = WriteFile(files, T, n)
           /\ IF timeDiff >= SampleInterval
              THEN /\ downloadsMap' = updateDownload(downloadsMap, T.downloadId,
                          [progress |-> Progress(downloadedBytes, T.totalSize),
                           downloadedSize |-> downloadedBytes, speed |-> speed])
                   /\ tasks' = [tasks EXCEPT ![t] =
                          [T EXCEPT !.downloadedBytes = downloadedBytes,
                                    !.delivered = T.delivered + n,
                                    !.timeDiff = 0, !.lastBytes = downloadedBytes]]
              ELSE /\ downloadsMap' = downloadsMap
                   /\ tasks' = [tasks EXCEPT ![t] =
                          [T EXCEPT !.downloadedBytes = downloadedBytes,
                                    !.delivered = T.delivered + n,
                                    !.timeDiff = timeDiff]]
    /\ UNCHANGED <<downloadCurrentId, episodesMap, seriesMap, activeDownloads,
                   pendingCancel, hist>>

\* lines 240-254: the stream signals end-of-data
streamEnd(t) ==
    /\ UNCHANGED routeVars
    /\ Idle
    /\ tasks[t].pc = "stream" /\ ~tasks[t].aborted
    /\ tasks[t].delivered = MediaSize - tasks[t].resumePosition
    /\ activeDownloads' = MapDelete(activeDownloads, tasks[t].downloadId)
    /\ downloadsMap' = updateDownload(downloadsMap, tasks[t].downloadId,
           [status |-> "completed", progress |-> 100,
            downloadedSize |-> tasks[t].totalSize, speed |-> 0])
    /\ tasks' = [tasks EXCEPT ![t] = FreeTask]
    /\ UNCHANGED <<downloadCurrentId, episodesMap, seriesMap, files,
                   pendingCancel, hist>>

\* lines 301-311: reader.read() rejects with an error that is no AbortError
streamError(t) ==
    /\ UNCHANGED routeVars
    /\ Idle
    /\ tasks[t].pc = "stream" /\ ~tasks[t].aborted
    /\ activeDownloads' = MapDelete(activeDownloads, tasks[t].downloadId)
    /\ downloadsMap' = updateDownload(downloadsMap, tasks[t].downloadId,
           [status |-> "error", error |-> "Error"])
    /\ tasks' = [tasks EXCEPT ![t] = FreeTask]
    /\ UNCHANGED <<downloadCurrentId, episodesMap, seriesMap, files,
                   pendingCancel, hist>>

\* lines 292-300: reader.read() rejects with AbortError
streamAborted(t) ==
    /\ UNCHANGED routeVars
    /\ tasks[t].pc = "stream" /\ tasks[t].aborted
    /\ activeDownloads' = MapSet(activeDownloads, tasks[t].downloadId,
           [abortController |-> EndedController,
            resumePosition |-> tasks[t].downloadedBytes, stream |-> FALSE])
    /\ tasks' = [tasks EXCEPT ![t] = FreeTask]
    /\ UNCHANGED <<downloadsMap, downloadCurrentId, episodesMap, seriesMap, files,
                   pendingCancel, hist>>

\* --------------------------------------------- the engine called directly
\* pauseDownload, resumeDownload and cancelDownload called with no Control
\* request to answer
Pause(id) == pauseDownload(id) /\ UNCHANGED response
Resume(id) == resumeDownload(id) /\ UNCHANGED response
Cancel(id) == cancelBegin(id) /\ UNCHANGED response
CancelReturns == cancelFinish /\ UNCHANGED response

\* ------------------------------------------------------------------- Next
Events ==
    \/ \E e \in EpisodeIds, status \in RequestStatuses, downloadPath \in DownloadPaths :
          createDownload([episodeId |-> e, status |-> status,
                          filePath |-> HintPath(downloadPath, e)])
    \/ \E sid \in SeriesIds : deleteEpisodes(sid)
    \/ \E id \in Ids : Pause(id)
    \/ \E id \in Ids : Resume(id)
    \/ \E id \in Ids : Cancel(id)
    \/ CancelReturns
    \/ \E t \in TaskIds, hasLength \in BOOLEAN : fetchResponse(t, hasLength)
    \/ \E t \in TaskIds : fetchFail(t)
    \/ \E t \in TaskIds : fetchAborted(t)
    \/ \E t \in TaskIds, n \in 1 .. MediaSize, adv \in 0 .. SampleInterval : chunk(t, n, adv)
    \/ \E t \in TaskIds : streamEnd(t)
    \/ \E t \in TaskIds : streamError(t)
    \/ \E t \in TaskIds : streamAborted(t)

\* the engine as the routes drive it
Next ==
    \/ Events
    \/ \E id \in Ids : StartTransfer(id)

Spec == Init /\ [][Next]_vars

\* what the event loop and the media server owe: the continuation of a
\* Cancel, the answer or the failure of a fetch, the next chunk, the end or
\* the failure of a stream, and the handlers of an aborted fetch
Callbacks ==
    \/ CancelReturns
    \/ \E t \in TaskIds, hasLength \in BOOLEAN : fetchResponse(t, hasLength)
    \/ \E t \in TaskIds : fetchFail(t)
    \/ \E t \in TaskIds : fetchAborted(t)
    \/ \E t \in TaskIds, n \in 1 .. MediaSize, adv \in 0 .. SampleInterval : chunk(t, n, adv)
    \/ \E t \in TaskIds : streamEnd(t)
    \/ \E t \in TaskIds : streamError(t)
    \/ \E t \in TaskIds : streamAborted(t)

\* the engine when every answer arrives and every pending callback runs
SpecLive == Init /\ [][Next]_vars /\ WF_vars(Callbacks)

\* the engine as a library: a caller may invoke startDownload a second time
RECURSIVE Starts(_)
Starts(h) == IF h = << >> THEN 0
             ELSE (IF Head(h).op = "start" THEN 1 ELSE 0) + Starts(Tail(h))

StartAgain(id) ==
    /\ Starts(hist[id]) = 1
    /\ UNCHANGED timers
    /\ startDownload(id)

NextApi ==
    \/ Events
    \/ \E id \in Ids : StartTransfer(id)
    \/ \E id \in Ids : StartAgain(id)

SpecApi == Init /\ [][NextApi]_vars

\* ------------------------------------- POST /api/downloads, series branch
\* what the attempt to resolve an episode's media URL can give: an exception,
\* or the URL that parseEpisodePage returned and isValidVideoUrl's verdict on it
Resolutions ==
    { [threw |-> TRUE,  url |-> "",       valid |-> FALSE],
      [threw |-> FALSE, url |-> "",       valid |-> FALSE],
      [threw |-> FALSE, url |-> "yeni",   valid |-> FALSE],
      [threw |-> FALSE, url |-> MediaUrl, valid |-> TRUE] }

\* Array.from(map.values()).filter(...): the episodes of a series, by id
RECURSIVE Ascending(_)
Ascending(S) ==
    IF S = {} THEN << >>
    ELSE LET x == CHOOSE y \in S : \A z \in S : y <= z
         IN  <<x>> \o Ascending(S \ {x})

getEpisodesBySeriesId(sid) ==
    LET ids == Ascending({e \in DOMAIN episodesMap : episodesMap[e].seriesId = sid})
    IN  [k \in 1 .. Len(ids) |-> [id |-> ids[k], downloadUrl |-> episodesMap[ids[k]].downloadUrl]]

\* MemStorage.updateEpisode
updateEpisode(em, id, data) ==
    IF id \in DOMAIN em THEN [em EXCEPT ![id] = Merge(@, data)] ELSE em

\* lines 221-232: the request is accepted and the loop begins
seriesDownload(sid) ==
    /\ Idle
    /\ batch = NoBatch
    /\ sid \in DOMAIN seriesMap
    /\ getEpisodesBySeriesId(sid) # << >>
    /\ batch' = [all  |-> getEpisodesBySeriesId(sid),
                 todo |-> getEpisodesBySeriesId(sid), seen |-> << >>]
    /\ UNCHANGED <<downloadsMap, downloadCurrentId, episodesMap, seriesMap,
                   activeDownloads, tasks, files, pendingCancel, hist, timers,
                   response, webVars>>

\* `if (episode.downloadUrl)` with the test left out
Wanted_Always(url) == TRUE

\* line 258: `if (episode.downloadUrl)`
Wanted(url) == url # ""

\* lines 234-274: one turn of the loop; r is what the resolution attempt gives
\* when the episode has no media URL yet
resolveStep(r) ==
    /\ Idle
    /\ batch.todo # << >>
    /\ LET episode  == Head(batch.todo)
           resolved == episode.downloadUrl = "" /\ ~r.threw /\ r.url # "" /\ r.valid
           skipped  == episode.downloadUrl = "" /\ r.threw
           url      == IF resolved THEN r.url ELSE episode.downloadUrl
           create   == ~skipped /\ Wanted(url)
       IN  /\ episodesMap' = IF resolved
                              THEN updateEpisode(episodesMap, episode.id, [downloadUrl |-> url])
                              ELSE episodesMap
           /\ create => downloadCurrentId \in DOMAIN hist
           /\ downloadsMap' = IF create
                               THEN MapSet(downloadsMap, downloadCurrentId,
                                           NewDownload([episodeId |-> episode.id,
                                                        status |-> "queued",
                                                        filePath |-> NoPath]))
                               ELSE downloadsMap
           /\ downloadCurrentId' = IF create THEN downloadCurrentId + 1 ELSE downloadCurrentId
           /\ timers' = IF create THEN timers \cup {downloadCurrentId} ELSE timers
           /\ batch' = [batch EXCEPT
                  !.todo = Tail(batch.todo),
                  !.seen = Append(batch.seen, [id |-> episode.id, downloadUrl |-> url])]
    /\ UNCHANGED <<seriesMap, activeDownloads, tasks, files, pendingCancel, hist,
                   response, webVars>>

\* a series of two episodes, each with its media URL resolved or not
InitBatch ==
    /\ InitStore
    /\ arg = NoArg
    /\ \E url1, url2 \in {"", MediaUrl} : Registry(url1, url2)
    /\ hist = [i \in PairIds |-> << >>]

NextBatch ==
    \/ \E sid \in SeriesIds : seriesDownload(sid)
    \/ \E r \in Resolutions : resolveStep(r)
    \/ \E id \in PairIds : StartTransfer(id)
    \/ \E sid \in SeriesIds : deleteEpisodes(sid)
    \/ \E t \in TaskIds, hasLength \in BOOLEAN : fetchResponse(t, hasLength)
    \/ \E t \in TaskIds : fetchFail(t)
    \/ \E t \in TaskIds, n \in 1 .. MediaSize, adv \in 0 .. SampleInterval : chunk(t, n, adv)
    \/ \E t \in TaskIds : streamEnd(t)
    \/ \E t \in TaskIds : streamError(t)

SpecBatch == InitBatch /\ [][NextBatch]_vars

\* -------------------------------------------------- two Transfers at once
\* POST /api/downloads called twice: both Transfers may be for the same
\* episode; the media server states the length of every response
InitPair ==
    /\ InitStore
    /\ arg = NoArg
    /\ Registry(MediaUrl, "")
    /\ hist = [i \in PairIds |-> << >>]

NextPair ==
    \/ \E e \in EpisodeIds, status \in RequestStatuses, downloadPath \in DownloadPaths :
          createDownload([episodeId |-> e, status |-> status,
                          filePath |-> HintPath(downloadPath, e)])
    \/ \E id \in PairIds : StartTransfer(id)
    \/ \E id \in PairIds : Pause(id)
    \/ \E id \in PairIds : Resume(id)
    \/ \E id \in PairIds : Cancel(id)
    \/ CancelReturns
    \/ \E t \in TaskIds, hasLength \in {TRUE} : fetchResponse(t, hasLength)
    \/ \E t \in TaskIds : fetchFail(t)
    \/ \E t \in TaskIds : fetchAborted(t)
    \/ \E t \in TaskIds, n \in 1 .. MediaSize, adv \in 0 .. SampleInterval : chunk(t, n, adv)
    \/ \E t \in TaskIds : streamEnd(t)
    \/ \E t \in TaskIds : streamError(t)
    \/ \E t \in TaskIds : streamAborted(t)

SpecPair == InitPair /\ [][NextPair]_vars

\* two Transfers that are created and started, and run to their end
NextStart ==
    \/ \E e \in EpisodeIds, status \in RequestStatuses, downloadPath \in DownloadPaths :
          createDownload([episodeId |-> e, status |-> status,
                          filePath |-> HintPath(downloadPath, e)])
    \/ \E id \in PairIds : StartTransfer(id)
    \/ \E sid \in SeriesIds : deleteEpisodes(sid)
    \/ \E t \in TaskIds, hasLength \in BOOLEAN : fetchResponse(t, hasLength)
    \/ \E t \in TaskIds : fetchFail(t)
    \/ \E t \in TaskIds, n \in 1 .. MediaSize, adv \in 0 .. SampleInterval : chunk(t, n, adv)
    \/ \E t \in TaskIds : streamEnd(t)

SpecStart == InitPair /\ [][NextStart]_vars

\* ------------------------------------------- POST /api/downloads/control
\* MemStorage.getDownload
getDownload(dm, id) == IF id \in DOMAIN dm THEN dm[id] ELSE NoRecord

\* lines 311-316: the record as it is now, or the refusal
ControlResponse(success, dm, downloadId, action) ==
    [ code |-> IF success THEN 200 ELSE 400, downloadId |-> downloadId,
      action |-> action,
      download |-> IF success THEN getDownload(dm, downloadId) ELSE NoRecord ]

\* lines 298-309: the engine is called; pauseDownload and resumeDownload
\* return at once, cancelDownload suspends and the answer waits for it
ControlCall(downloadId, action) ==
    \/ /\ action = "pause"
       /\ pauseDownload(downloadId)
       /\ response' = ControlResponse(hist'[downloadId][Len(hist'[downloadId])].ret,
                                      downloadsMap', downloadId, action)
    \/ /\ action = "resume"
       /\ resumeDownload(downloadId)
       /\ response' = ControlResponse(hist'[downloadId][Len(hist'[downloadId])].ret,
                                      downloadsMap', downloadId, action)
    \/ /\ action = "cancel"
       /\ cancelBegin(downloadId)
       /\ UNCHANGED response

\* the handler without the look-up of the record
Control_NoLookup(downloadId, action) == ControlCall(downloadId, action)

\* lines 291-309: 404 when the id has no record, the engine otherwise
Control(downloadId, action) ==
    IF downloadId \notin DOMAIN downloadsMap
    THEN /\ Idle
         /\ response' = [ code |-> 404, downloadId |-> downloadId, action |-> action,
                          download |-> NoRecord ]
         /\ UNCHANGED <<downloadsMap, downloadCurrentId, episodesMap, seriesMap,
                        activeDownloads, tasks, files, pendingCancel, hist, timers,
                        batch, webVars>>
    ELSE ControlCall(downloadId, action)

\* cancelDownload returned true: lines 311-313
ControlReturn ==
    /\ cancelFinish
    /\ response' = ControlResponse(TRUE, downloadsMap', pendingCancel[1].id, "cancel")

ControlActions == {"pause", "resume", "cancel"}

NextControl ==
    \/ \E e \in EpisodeIds, status \in RequestStatuses, downloadPath \in DownloadPaths :
          createDownload([episodeId |-> e, status |-> status,
                          filePath |-> HintPath(downloadPath, e)])
    \/ \E id \in Ids : StartTransfer(id)
    \/ \E id \in Ids, action \in ControlActions : Control(id, action)
    \/ ControlReturn
    \/ \E sid \in SeriesIds : deleteEpisodes(sid)
    \/ \E t \in TaskIds, hasLength \in BOOLEAN : fetchResponse(t, hasLength)
    \/ \E t \in TaskIds : fetchFail(t)
    \/ \E t \in TaskIds : fetchAborted(t)
    \/ \E t \in TaskIds, n \in 1 .. MediaSize, adv \in 0 .. SampleInterval : chunk(t, n, adv)
    \/ \E t \in TaskIds : streamEnd(t)
    \/ \E t \in TaskIds : streamError(t)
    \/ \E t \in TaskIds : streamAborted(t)

\* the engine driven through the Control route only
SpecControl == Init /\ [][NextControl]_vars

\* ---------------------------------------------------------------- strings
\* a string is the sequence of its characters
includes(s, sub) ==
    \E k \in 0 .. Len(s) - Len(sub) : SubSeq(s, k + 1, k + Len(sub)) = sub

startsWith(s, sub) == Len(sub) <= Len(s) /\ SubSeq(s, 1, Len(sub)) = sub

lower(s) == [k \in 1 .. Len(s) |-> toLowerCase(s[k])]

\* ------------------------------------------------- Scraper.determineUrlType
CollectionMarkers ==
    { <<"/", "a", "n", "i", "m", "e", "/">>,
      <<"/", "c", "a", "t", "e", "g", "o", "r", "y", "/">>,
      <<"/", "s", "e", "r", "i", "e", "s", "/">>,
      <<"/", "c", "a", "r", "t", "o", "o", "n", "/">> }

ItemMarkers ==
    { <<"/", "e", "p", "i", "s", "o", "d", "e">>,
      <<"/", "w", "a", "t", "c", "h", "/">>,
      <<"/", "v", "i", "d", "e", "o", "/">> }

\* determineUrlType with the markers looked for in the URL as it was given
determineUrlType_CaseSensitive(url) ==
    IF \/ \E m \in CollectionMarkers : includes(url, m)
       \/ \A m \in ItemMarkers : ~includes(url, m)
    THEN [type |-> "series", url |-> url]
    ELSE [type |-> "episode", url |-> url]

determineUrlType(url) ==
    LET normalizedUrl == lower(url)
    IN  IF \/ \E m \in CollectionMarkers : includes(normalizedUrl, m)
           \/ \A m \in ItemMarkers : ~includes(normalizedUrl, m)
        THEN [type |-> "series", url |-> url]
        ELSE [type |-> "episode", url |-> url]

\* a function of the scraper is about to be called, its argument one of calls
InitCall(calls) ==
    /\ InitStore
    /\ arg \in calls
    /\ Registry(MediaUrl, "")
    /\ hist = [i \in Ids |-> << >>]

\* ------------------------------------------------ Scraper.isValidVideoUrl
validExtensions ==
    { <<".", "m", "p", "4">>, <<".", "m", "3", "u", "8">>,
      <<".", "f", "l", "v">>, <<".", "w", "e", "b", "m">>,
      <<".", "m", "o", "v">>, <<".", "m", "k", "v">> }

VideoParams ==
    { <<"f", "i", "l", "e">>, <<"s", "o", "u", "r", "c", "e">>,
      <<"v", "i", "d", "e", "o">> }

\* the index of the first character of s at or after k that is in the set C,
\* Len(s) + 1 if there is none
RECURSIVE indexOfAny(_, _, _)
indexOfAny(s, C, k) ==
    IF k > Len(s) THEN Len(s) + 1
    ELSE IF s[k] \in C THEN k ELSE indexOfAny(s, C, k + 1)

\* s.split(sep): the pieces of s between the occurrences of the character sep
RECURSIVE split(_, _)
split(s, sep) ==
    LET k == indexOfAny(s, {sep}, 1)
    IN  IF k > Len(s) THEN <<s>>
        ELSE <<SubSeq(s, 1, k - 1)>> \o split(SubSeq(s, k + 1, Len(s)), sep)

\* new URLSearchParams(query).has(name): the pairs are separated by &, the
\* name of a pair ends at its first =
searchParamsHas(query, name) ==
    LET pairs == split(query, "&")
    IN  \E k \in 1 .. Len(pairs) :
           /\ pairs[k] # << >>
           /\ split(pairs[k], "=")[1] = name

hasValidExtension(url) == \E ext \in validExtensions : includes(lower(url), ext)

\* new URLSearchParams(url.split('?')[1] || '') has file, source or video
hasVideoParams(url) ==
    LET parts == split(url, "?")
        query == IF Len(parts) > 1 THEN parts[2] ELSE << >>
    IN  \E name \in VideoParams : searchParamsHas(query, name)

\* `new URL(url)` for a string that begins with http:// or https://, as the
\* platform parses it: slashes after the scheme are skipped, the host ends at
\* the next / \ ? or #, and the parse fails when the host is empty or has a
\* character no host may have
RECURSIVE skipSlashes(_)
skipSlashes(s) ==
    IF s # << >> /\ Head(s) \in {"/", "\\"} THEN skipSlashes(Tail(s)) ELSE s

hostOf(url) ==
    LET rest == skipSlashes(SubSeq(url, indexOfAny(url, {":"}, 1) + 1, Len(url)))
    IN  SubSeq(rest, 1, indexOfAny(rest, {"/", "\\", "?", "#"}, 1) - 1)

urlParses(url) ==
    LET ForbiddenInHost == {" ", "<", ">", "^", "|", "%", "[", "]", "@"}
    IN  /\ hostOf(url) # << >>
        /\ \A k \in 1 .. Len(hostOf(url)) : hostOf(url)[k] \notin ForbiddenInHost

MinUrlLength == 10
Http == <<"h", "t", "t", "p", ":", "/", "/">>
Https == <<"h", "t", "t", "p", "s", ":", "/", "/">>

isValidVideoUrl(url) ==
    IF url = << >> THEN FALSE
    ELSE IF Len(url) < MinUrlLength THEN FALSE
    ELSE IF ~startsWith(url, Http) /\ ~startsWith(url, Https) THEN FALSE
    ELSE IF ~hasValidExtension(url) /\ ~hasVideoParams(url) THEN FALSE
    ELSE urlParses(url)

\* the strings the function is applied to: scheme, host, path and query
TestUrls ==
    LET Schemes ==
            { << >>, Http, Https, <<"f", "t", "p", ":", "/", "/">>,
              <<"H", "T", "T", "P", "S", ":", "/", "/">> }
        Hosts ==
            { << >>, <<"x">>, <<"y", "e", "n", "i">>, <<"x", ".", "m", "p", "4">>,
              <<"x", ".", "c", "o", "m">>, <<"a", " ", "b">>,
              <<"c", "d", "n", ".", "e", "x", "a", "m", "p", "l", "e", ".", "c", "o", "m">> }
        Paths ==
            { << >>, <<"/", "n", "o", "e", "x", "t">>,
              <<"/", "v", "i", "d", "e", "o", "/", "e", "p", "1", ".", "m", "p", "4">>,
              <<"/", "a", ".", "M", "P", "4">>, <<"/", "v", ".", "m", "3", "u", "8">>,
              <<"/", "a", ".", "m", "p", "4", ".", "h", "t", "m", "l">> }
        Queries ==
            { << >>, <<"?", "f", "i", "l", "e", "=", "1">>, <<"?", "x", "f", "i", "l", "e", "=", "1">>,
              <<"?", "x", "=", "f", "i", "l", "e">>,
              <<"?", "a", "=", "1", "&", "v", "i", "d", "e", "o", "=", "2">>,
              <<"?", "a", "?", "s", "o", "u", "r", "c", "e", "=", "1">> }
    IN  {s \o h \o p \o q : s \in Schemes, h \in Hosts, p \in Paths, q \in Queries}

\* the scraper is asked whether url is a media URL
callIsValidVideoUrl ==
    /\ arg.fn = "isValidVideoUrl"
    /\ result = NoResult
    /\ result' = [fn |-> "isValidVideoUrl", value |-> isValidVideoUrl(arg.url)]
    /\ UNCHANGED <<downloadsMap, downloadCurrentId, episodesMap, seriesMap,
                   activeDownloads, tasks, files, pendingCancel, hist, timers, batch,
                   response, seriesCurrentId, episodeCurrentId, fetches, arg>>

SpecValidate ==
    InitCall([fn : {"isValidVideoUrl"}, url : TestUrls]) /\ [][callIsValidVideoUrl]_vars

\* the URLs the function is applied to: https://site, then two pieces of path
TestPageUrls ==
    LET FirstPieces ==
            { << >>, <<"/", "a", "n", "i", "m", "e">>,
              <<"/", "c", "a", "t", "e", "g", "o", "r", "y">>,
              <<"/", "s", "e", "r", "i", "e", "s">>,
              <<"/", "c", "a", "r", "t", "o", "o", "n">>,
              <<"/", "e", "p", "i", "s", "o", "d", "e">>, <<"/", "w", "a", "t", "c", "h">>,
              <<"/", "v", "i", "d", "e", "o">>, <<"/", "W", "A", "T", "C", "H">>,
              <<"/", "C", "a", "r", "t", "o", "o", "n">>, <<"/", "f", "o", "o">>,
              <<"/", "a", "n", "i", "m", "e", "s">>, <<"/", "V", "i", "d", "e", "o">> }
        SecondPieces ==
            { << >>, <<"/">>, <<"/", "f", "o", "o">>,
              <<"/", "f", "o", "o", "-", "e", "p", "i", "s", "o", "d", "e", "-", "3">>,
              <<"/", "e", "p", "i", "s", "o", "d", "e", "-", "3">>,
              <<"/", "w", "a", "t", "c", "h", "/", "x">>,
              <<"/", "a", "n", "i", "m", "e", "/", "x">>,
              <<"/", "E", "p", "i", "s", "o", "d", "e", "1">>,
              <<"/", "x", "/", "v", "i", "d", "e", "o", "/">> }
        SiteRoot == <<"h", "t", "t", "p", "s", ":", "/", "/", "s", "i", "t", "e">>
    IN  {SiteRoot \o a \o b : a \in FirstPieces, b \in SecondPieces}

\* the scraper is asked what kind of page url names
callDetermineUrlType ==
    /\ arg.fn = "determineUrlType"
    /\ result = NoResult
    /\ result' = [fn |-> "determineUrlType", value |-> determineUrlType(arg.url)]
    /\ UNCHANGED <<downloadsMap, downloadCurrentId, episodesMap, seriesMap,
                   activeDownloads, tasks, files, pendingCancel, hist, timers, batch,
                   response, seriesCurrentId, episodeCurrentId, fetches, arg>>

SpecClassify ==
    InitCall([fn : {"determineUrlType"}, url : TestPageUrls]) /\ [][callDetermineUrlType]_vars

\* --------------------------------------------- Scraper.parseEpisodePage
\* A document is what the selectors of the function find in it: the src of
\* its `video source` elements, the src of its `video` elements and, for each
\* script, what each of the four patterns captures first in its text (<< >>
\* where an element has no src or a pattern has no match).
MaxFrames == 2

\* the first string of urls that is not empty and is a valid video URL,
\* << >> when there is none
RECURSIVE firstValid(_)
firstValid(urls) ==
    IF urls = << >> THEN << >>
    ELSE IF Head(urls) # << >> /\ isValidVideoUrl(Head(urls)) THEN Head(urls)
    ELSE firstValid(Tail(urls))

\* $('video').attr('src'): the src of the first video element
videoSrc(doc) == IF doc.videos = << >> THEN << >> ELSE Head(doc.videos)

\* the capture of the first of the four patterns that matches the script
match(script) ==
    IF script.mp4 # << >> THEN script.mp4
    ELSE IF script.m3u8 # << >> THEN script.m3u8
    ELSE IF script.file # << >> THEN script.file
    ELSE script.source

\* the loop over the scripts: the match of each script is validated
scriptUrl(doc) == firstValid([k \in 1 .. Len(doc.scripts) |-> match(doc.scripts[k])])

\* the search of the document of a frame
iframeUrl(doc) ==
    IF firstValid(doc.sources) # << >> THEN firstValid(doc.sources)
    ELSE IF firstValid(<<videoSrc(doc)>>) # << >> THEN videoSrc(doc)
    ELSE scriptUrl(doc)

\* the search of the main page
mainUrl(doc) ==
    IF firstValid(<<videoSrc(doc)>>) # << >> THEN videoSrc(doc)
    ELSE scriptUrl(doc)

\* the loop over the frames with the failure of a fetch left to the caller
RECURSIVE searchIframes_NoCatch(_)
searchIframes_NoCatch(iframes) ==
    IF iframes = << >> THEN [threw |-> FALSE, url |-> << >>]
    ELSE LET iframe == Head(iframes)
         IN  IF ~iframe.src THEN searchIframes_NoCatch(Tail(iframes))
             ELSE IF ~iframe.ok THEN [threw |-> TRUE, url |-> << >>]
             ELSE IF iframeUrl(iframe.doc) # << >>
                  THEN [threw |-> FALSE, url |-> iframeUrl(iframe.doc)]
             ELSE searchIframes_NoCatch(Tail(iframes))

\* the loop over the frames: a frame without src is passed over, a frame
\* whose fetch fails is caught and passed over, the loop ends at the first
\* frame that gives a URL
RECURSIVE searchIframes(_)
searchIframes(iframes) ==
    IF iframes = << >> THEN [threw |-> FALSE, url |-> << >>]
    ELSE LET iframe == Head(iframes)
         IN  IF ~iframe.src THEN searchIframes(Tail(iframes))
             ELSE IF ~iframe.ok THEN searchIframes(Tail(iframes))
             ELSE IF iframeUrl(iframe.doc) # << >>
                  THEN [threw |-> FALSE, url |-> iframeUrl(iframe.doc)]
             ELSE searchIframes(Tail(iframes))

parseEpisodePage(page) ==
    LET found == searchIframes(page.iframes)
    IN  IF found.threw THEN [threw |-> TRUE, downloadUrl |-> << >>]
        ELSE IF found.url # << >> THEN [threw |-> FALSE, downloadUrl |-> found.url]
        ELSE [threw |-> FALSE, downloadUrl |-> mainUrl(page.main)]

\* the documents the function is applied to
TestDocs ==
    LET NoScript == [mp4 |-> << >>, m3u8 |-> << >>, file |-> << >>, source |-> << >>]
        Word == <<"y", "e", "n", "i">>
        BadMp4 == <<"x", ".", "m", "p", "4">>
        Cdn == <<"h", "t", "t", "p", "s", ":", "/", "/", "c", "/">>
        SourceLists == { << >>, <<Word>>, <<Word, Cdn \o <<"s", ".", "m", "p", "4">>>> }
        VideoLists == { << >>, <<Cdn \o <<"v", ".", "m", "p", "4">>>> }
        ScriptLists ==
            { << >>,
              <<[NoScript EXCEPT !.mp4 = BadMp4,
                                 !.file = Cdn \o <<"f", "?", "f", "i", "l", "e", "=", "1">>]>>,
              <<[NoScript EXCEPT !.mp4 = BadMp4],
                [NoScript EXCEPT !.m3u8 = Cdn \o <<"j", ".", "m", "3", "u", "8">>]>> }
    IN  [sources : SourceLists, videos : VideoLists, scripts : ScriptLists]

RECURSIVE SeqsUpTo(_, _)
SeqsUpTo(S, n) ==
    IF n = 0 THEN {<< >>}
    ELSE SeqsUpTo(S, n - 1)
         \cup {Append(q, x) : q \in {r \in SeqsUpTo(S, n - 1) : Len(r) = n - 1}, x \in S}

\* the pages: up to MaxFrames frames, each fetched, failing or without src
TestPages ==
    LET TestFrames ==
            {[src |-> TRUE, ok |-> TRUE, doc |-> doc] :
                doc \in {d \in TestDocs : Len(d.sources) # 1}}
            \cup {[src |-> TRUE, ok |-> FALSE, doc |-> CHOOSE doc \in TestDocs : TRUE],
                  [src |-> FALSE, ok |-> FALSE, doc |-> CHOOSE doc \in TestDocs : TRUE]}
    IN  [iframes : SeqsUpTo(TestFrames, MaxFrames), main : TestDocs]

\* the scraper searches the page for the media URL
callParseEpisodePage ==
    /\ arg.fn = "parseEpisodePage"
    /\ result = NoResult
    /\ result' = [fn |-> "parseEpisodePage", value |-> parseEpisodePage(arg.page)]
    /\ UNCHANGED <<downloadsMap, downloadCurrentId, episodesMap, seriesMap,
                   activeDownloads, tasks, files, pendingCancel, hist, timers, batch,
                   response, seriesCurrentId, episodeCurrentId, fetches, arg>>

SpecParse ==
    InitCall([fn : {"parseEpisodePage"}, page : TestPages]) /\ [][callParseEpisodePage]_vars

\* --------------------------------------------- Scraper.parseEpisodeList
\* A page is the sequence of its anchors in document order; an anchor has its
\* href (<< >> when it has none), its text, and the list it stands in:
\* "listing" (.listing), "catlist" (#catlist-listview), "cateps" (.cat-eps)
\* or "none".
MaxAnchors == 2

\* `https://www.wcofun.net${sourceUrl.startsWith('/') ? '' : '/'}${sourceUrl}`
\* unless sourceUrl.startsWith('http')
fullUrl(sourceUrl) ==
    IF startsWith(sourceUrl, <<"h", "t", "t", "p">>) THEN sourceUrl
    ELSE <<"h", "t", "t", "p", "s", ":", "/", "/", "w", "w", "w", ".", "w", "c", "o", "f", "u", "n", ".", "n", "e", "t">>
         \o (IF startsWith(sourceUrl, <<"/">>) THEN << >> ELSE <<"/">>) \o sourceUrl

\* the anchors the function works on: those of the first selector or filter
\* that gives at least one
episodeElements(anchors) ==
    LET In(list) == SelectSeq(anchors, LAMBDA a : a.list = list)
        OnSite(a) == includes(a.href, <<"w", "c", "o", "f", "u", "n", ".", "n", "e", "t">>)
        Named(a) == includes(a.href, <<"d", "u", "b", "b", "e", "d">>) \/ includes(a.href, <<"s", "u", "b", "b", "e", "d">>)
        Generic(a) ==
            /\ OnSite(a) \/ startsWith(a.href, <<"/">>)
            /\ \/ includes(a.href, <<"e", "p", "i", "s", "o", "d", "e">>)
               \/ includes(a.href, <<"-", "e", "p", "i", "s", "o", "d", "e", "-">>)
               \/ includes(lower(a.text), <<"e", "p", "i", "s", "o", "d", "e">>)
               \/ Named(a)
        LastResort(a) ==
            \/ OnSite(a)
            \/ /\ startsWith(a.href, <<"/">>)
               /\ \/ includes(a.href, <<"-", "e", "p", "i", "s", "o", "d", "e", "-">>)
                  \/ includes(a.href, <<"-", "e", "n", "g", "l", "i", "s", "h", "-">>)
                  \/ Named(a)
    IN  IF In("listing") # << >> THEN In("listing")
        ELSE IF In("catlist") # << >> THEN In("catlist")
        ELSE IF In("cateps") # << >> THEN In("cateps")
        ELSE IF SelectSeq(anchors, Generic) # << >> THEN SelectSeq(anchors, Generic)
        ELSE SelectSeq(anchors, LastResort)

\* episodeElements.each(...): an anchor without href is passed over, an anchor
\* whose full URL is already in episodes is not pushed
RECURSIVE pushEpisodes(_, _)
pushEpisodes(anchors, episodes) ==
    IF anchors = << >> THEN episodes
    ELSE LET sourceUrl == Head(anchors).href
         IN  IF sourceUrl = << >> THEN pushEpisodes(Tail(anchors), episodes)
             ELSE IF \E k \in 1 .. Len(episodes) : episodes[k].sourceUrl = fullUrl(sourceUrl)
                  THEN pushEpisodes(Tail(anchors), episodes)
             ELSE pushEpisodes(Tail(anchors),
                               Append(episodes, [sourceUrl |-> fullUrl(sourceUrl)]))

parseEpisodeList(anchors) == pushEpisodes(episodeElements(anchors), << >>)

\* the pages the function is applied to: up to MaxAnchors anchors
TestAnchors ==
    [ href : { << >>, <<"/", "a", "-", "e", "p", "i", "s", "o", "d", "e", "-", "1">>,
               <<"a", "-", "e", "p", "i", "s", "o", "d", "e", "-", "1">>,
               <<"h", "t", "t", "p", "s", ":", "/", "/", "w", "w", "w", ".", "w", "c", "o", "f", "u", "n", ".", "n", "e", "t", "/", "a", "-", "e", "p", "i", "s", "o", "d", "e", "-", "1">>,
               <<"h", "t", "t", "p", "-", "e", "p", "i", "s", "o", "d", "e", "-", "2">>,
               <<"/", "a", "b", "o", "u", "t">>, <<"/", "b", "-", "e", "n", "g", "l", "i", "s", "h", "-", "d", "u", "b", "b", "e", "d">> },
      text : { << >>, <<"E", "p", "i", "s", "o", "d", "e", " ", "1">> },
      list : {"listing", "catlist", "cateps", "none"} ]

\* the scraper lists the episodes of the page arg.anchors
callParseEpisodeList ==
    /\ arg.fn = "parseEpisodeList"
    /\ result = NoResult
    /\ result' = [fn |-> "parseEpisodeList", value |-> parseEpisodeList(arg.anchors)]
    /\ UNCHANGED <<downloadsMap, downloadCurrentId, episodesMap, seriesMap,
                   activeDownloads, tasks, files, pendingCancel, hist, timers, batch,
                   response, seriesCurrentId, episodeCurrentId, fetches, arg>>

SpecEpisodes ==
    InitCall([fn : {"parseEpisodeList"}, anchors : SeqsUpTo(TestAnchors, MaxAnchors)])
    /\ [][callParseEpisodeList]_vars

\* --------------------------------------------- Scraper.parseSeriesInfo
\* s.trim(): s without the whitespace at its two ends
trim(s) ==
    LET inked == {k \in 1 .. Len(s) : s[k] \notin Whitespace}
    IN  IF inked = {} THEN << >>
        ELSE SubSeq(s, CHOOSE k \in inked : \A j \in inked : k <= j,
                       CHOOSE k \in inked : \A j \in inked : k >= j)

\* s.replace(pattern, replacement) with a string pattern: the first
\* occurrence only
replace(s, pattern, replacement) ==
    LET at == {k \in 1 .. Len(s) - Len(pattern) + 1 :
                  SubSeq(s, k, k + Len(pattern) - 1) = pattern}
    IN  IF at = {} THEN s
        ELSE LET k == CHOOSE i \in at : \A j \in at : i <= j
             IN  SubSeq(s, 1, k - 1) \o replacement \o SubSeq(s, k + Len(pattern), Len(s))

\* the four texts the title is looked for in, in the order of the code: a
\* page is the text of its .video-title, h1.title and title elements
titleCandidates(page, sourceUrl) ==
    LET urlParts == split(sourceUrl, "/")
        lastPart == urlParts[Len(urlParts)]
        spaced == [k \in 1 .. Len(lastPart) |->
                      IF lastPart[k] = "-" THEN " " ELSE lastPart[k]]
        Word(c) ==
            \/ \E k \in 1 .. Len(UpperCase) : c \in {UpperCase[k], LowerCase[k]}
            \/ c \in {"0", "1", "2", "3", "4", "5", "6", "7", "8", "9", "_"}
        toUpperCase(c) ==
            IF \E k \in 1 .. Len(LowerCase) : LowerCase[k] = c
            THEN UpperCase[CHOOSE k \in 1 .. Len(LowerCase) : LowerCase[k] = c]
            ELSE c
    IN  << trim(page.videoTitle),
           trim(page.h1Title),
           replace(replace(trim(page.title), <<" ", "|", " ", "W", "C", "O">>, << >>), <<"W", "a", "t", "c", "h", " ">>, << >>),
           [k \in 1 .. Len(spaced) |->
               IF Word(spaced[k]) /\ (k = 1 \/ ~Word(spaced[k - 1]))
               THEN toUpperCase(spaced[k]) ELSE spaced[k]] >>

\* parseSeriesInfo with each later text taken whenever it is not empty
parseSeriesInfo_LaterWins(page, sourceUrl) ==
    LET c == titleCandidates(page, sourceUrl)
    IN  [title |-> IF c[4] # << >> THEN c[4]
                   ELSE IF c[3] # << >> THEN c[3]
                   ELSE IF c[2] # << >> THEN c[2] ELSE c[1],
         sourceUrl |-> sourceUrl]

\* the title and the source URL of the record parseSeriesInfo returns (its
\* description, image and episode count are read from other elements)
parseSeriesInfo(page, sourceUrl) ==
    LET c == titleCandidates(page, sourceUrl)
    IN  [title |-> IF c[1] # << >> THEN c[1]
                   ELSE IF c[2] # << >> THEN c[2]
                   ELSE IF c[3] # << >> THEN c[3] ELSE c[4],
         sourceUrl |-> sourceUrl]

\* the scraper reads the series of the page arg.page
callParseSeriesInfo ==
    /\ arg.fn = "parseSeriesInfo"
    /\ result = NoResult
    /\ result' = [fn |-> "parseSeriesInfo",
                  value |-> parseSeriesInfo(arg.page, arg.sourceUrl)]
    /\ UNCHANGED <<downloadsMap, downloadCurrentId, episodesMap, seriesMap,
                   activeDownloads, tasks, files, pendingCancel, hist, timers, batch,
                   response, seriesCurrentId, episodeCurrentId, fetches, arg>>

\* the pages and URLs the function is applied to
TestSeriesPages ==
    LET Pages ==
            [ videoTitle : { << >>, <<" ", " ">>, <<" ", "S", "h", "o", "w", " ", "A", " ">> },
              h1Title : { << >>, <<"S", "h", "o", "w", " ", "B">> },
              title : { << >>, <<"W", "a", "t", "c", "h", " ", "F", "o", "o", " ", "B", "a", "r", " ", "|", " ", "W", "C", "O">>,
                        <<"W", "a", "t", "c", "h", " ", " ", "|", " ", "W", "C", "O">>,
                        <<"N", "i", "g", "h", "t", " ", "W", "a", "t", "c", "h", " ", "A", "g", "a", "i", "n", " ", "|", " ", "W", "C", "O">>,
                        <<" ", "W", "C", "O", " ">> } ]
        Urls ==
            { <<"h", "t", "t", "p", "s", ":", "/", "/", "w", "/", "a", "n", "i", "m", "e", "/", "f", "o", "o", "-", "b", "a", "r">>,
              <<"h", "t", "t", "p", "s", ":", "/", "/", "w", "/", "a", "n", "i", "m", "e", "/", "f", "o", "o", "-", "b", "a", "r", "/">>,
              <<"h", "t", "t", "p", "s", ":", "/", "/", "w", "/", "a", "n", "i", "m", "e", "/", "x", "_", "1", "-", "2", "n", "d">> }
    IN  [fn : {"parseSeriesInfo"}, page : Pages, sourceUrl : Urls]

SpecSeries == InitCall(TestSeriesPages) /\ [][callParseSeriesInfo]_vars

\* ---------------------------------------------------- sanitizePathName
MaxNameLen == 4

\* the names the function is applied to: every string of up to MaxNameLen
\* characters of a small alphabet, and the title "My Show: Part 1"
TestNames ==
    SeqsUpTo({"A", "b", "1", "-", ":", "/", " ", "\t"}, MaxNameLen)
    \cup {<<"M", "y", " ", "S", "h", "o", "w", ":", " ", "P", "a", "r", "t", " ", "1">>}

\* a directory name is made of arg.name
callSanitizePathName ==
    /\ arg.fn = "sanitizePathName"
    /\ result = NoResult
    /\ result' = [fn |-> "sanitizePathName", value |-> sanitizePathName(arg.name)]
    /\ UNCHANGED <<downloadsMap, downloadCurrentId, episodesMap, seriesMap,
                   activeDownloads, tasks, files, pendingCancel, hist, timers, batch,
                   response, seriesCurrentId, episodeCurrentId, fetches, arg>>

SpecSanitize ==
    InitCall([fn : {"sanitizePathName"}, name : TestNames]) /\ [][callSanitizePathName]_vars

\* ------------------------------------------------------ POST /api/fetch-url
\* Array.prototype.find over the values of a map: the record of the lowest id
\* whose sourceUrl is url, Null if none
BySourceUrl(m, url) ==
    LET S == {k \in DOMAIN m : m[k].sourceUrl = url}
    IN  IF S = {} THEN Null ELSE CHOOSE k \in S : \A j \in S : k <= j

\* what the site serves for a series page (the links of its episode list, no
\* link twice) and for an episode page (the link to its series, if any, and
\* the media URL that parseEpisodePage and isValidVideoUrl leave)
SeriesPages == { << >>, <<EpisodeUrl(1)>>, <<EpisodeUrl(1), EpisodeUrl(2)>> }
EpisodePages == [seriesLink : {NoPath, SeriesUrl}, downloadUrl : {"", MediaUrl}]

\* lines 36-52 and 99-104: the request up to its first `await getSourceHtml`;
\* an episode that is already stored is answered at once
fetchUrlBegin(url, forceRefresh) ==
    /\ Idle
    /\ Len(fetches) < MaxPending
    /\ LET type == determineUrlType(url).type
       IN  /\ type = "episode" => BySourceUrl(episodesMap, url) = Null
           /\ fetches' = Append(fetches,
                  [ type |-> type, url |-> url, forceRefresh |-> forceRefresh,
                    series |-> IF type = "series" THEN BySourceUrl(seriesMap, url)
                               ELSE Null ])
    /\ UNCHANGED <<downloadsMap, downloadCurrentId, episodesMap, seriesMap,
                   activeDownloads, tasks, files, pendingCancel, hist, timers, batch,
                   response, seriesCurrentId, episodeCurrentId, arg, result>>

Remove(q, k) == SubSeq(q, 1, k - 1) \o SubSeq(q, k + 1, Len(q))

\* parseEpisodeList: the episodes of the list, numbered by position
ParsedEpisodes(links, seriesId) ==
    [k \in 1 .. Len(links) |->
        [seriesId |-> seriesId, season |-> 1, episodeNumber |-> k, downloadUrl |-> "",
         sourceUrl |-> links[k]]]

\* createEpisode for every parsed episode, in order
CreateEpisodes(em, first, parsed) ==
    [k \in DOMAIN em \cup (first .. first + Len(parsed) - 1) |->
        IF k \in DOMAIN em THEN em[k] ELSE parsed[k - first + 1]]

\* line 74 with the episodes parsed on every request
NeedsEpisodes_Always(episodes, forceRefresh) == TRUE

\* line 74: episodes.length === 0 || forceRefresh
NeedsEpisodes(episodes, forceRefresh) == episodes = {} \/ forceRefresh

\* lines 54-98: the series page arrived; series is what the look-up before
\* the await found. arg keeps the request with what lines 44 and 71 found,
\* response is the answer { type, series, episodes }
fetchUrlSeries(k, links) ==
    /\ Idle
    /\ k \in 1 .. Len(fetches)
    /\ fetches[k].type = "series"
    /\ LET r        == fetches[k]
           isNew    == r.series = Null
           id       == IF isNew THEN seriesCurrentId ELSE r.series
           sm       == IF isNew \/ (r.forceRefresh /\ id \in DOMAIN seriesMap)
                       THEN MapSet(seriesMap, id, [title |-> SeriesTitle, sourceUrl |-> r.url])
                       ELSE seriesMap
           old      == {e \in DOMAIN episodesMap : episodesMap[e].seriesId = id}
           reparse  == NeedsEpisodes(old, r.forceRefresh)
           kept     == IF r.forceRefresh THEN MapDeleteAll(episodesMap, old) ELSE episodesMap
           parsed   == ParsedEpisodes(links, id)
       IN  /\ id \in DOMAIN sm
           /\ isNew => seriesCurrentId <= MaxRecords
           /\ reparse => episodeCurrentId + Len(parsed) - 1 <= MaxRecords
           /\ seriesMap' = sm
           /\ seriesCurrentId' = IF isNew THEN seriesCurrentId + 1 ELSE seriesCurrentId
           /\ episodesMap' = IF reparse THEN CreateEpisodes(kept, episodeCurrentId, parsed)
                              ELSE episodesMap
           /\ episodeCurrentId' = IF reparse THEN episodeCurrentId + Len(parsed)
                                  ELSE episodeCurrentId
           /\ arg' = [fn |-> "fetch-url", url |-> r.url, forceRefresh |-> r.forceRefresh,
                      series |-> r.series, episodes |-> old]
           /\ response' = [code |-> 200, type |-> "series", series |-> id,
                           episodes |-> {e \in DOMAIN episodesMap' :
                                            episodesMap'[e].seriesId = id}]
    /\ fetches' = Remove(fetches, k)
    /\ UNCHANGED <<downloadsMap, downloadCurrentId, activeDownloads, tasks, files,
                   pendingCancel, hist, timers, batch, result>>

\* lines 105-157: the episode page arrived: its series is looked up by the
\* link of the page or made from the page, and the episode is created
fetchUrlEpisode(k, page) ==
    /\ Idle
    /\ k \in 1 .. Len(fetches)
    /\ fetches[k].type = "episode"
    /\ LET r      == fetches[k]
           linked == IF page.seriesLink = NoPath THEN Null
                     ELSE BySourceUrl(seriesMap, page.seriesLink)
           isNew  == linked = Null
           id     == IF isNew THEN seriesCurrentId ELSE linked
       IN  /\ isNew => seriesCurrentId <= MaxRecords
           /\ episodeCurrentId <= MaxRecords
           /\ seriesMap' = IF isNew
                           THEN MapSet(seriesMap, id,
                                    [title |-> SeriesTitle,
                                     sourceUrl |-> IF page.seriesLink = NoPath THEN r.url
                                                   ELSE page.seriesLink])
                           ELSE seriesMap
           /\ seriesCurrentId' = IF isNew THEN seriesCurrentId + 1 ELSE seriesCurrentId
           /\ episodesMap' = MapSet(episodesMap, episodeCurrentId,
                  [seriesId |-> id, season |-> 1, episodeNumber |-> 1,
                   downloadUrl |-> page.downloadUrl, sourceUrl |-> r.url])
           /\ episodeCurrentId' = episodeCurrentId + 1
           /\ arg' = [fn |-> "fetch-url", url |-> r.url, forceRefresh |-> r.forceRefresh,
                      series |-> linked, episodes |-> {}]
           /\ response' = [code |-> 200, type |-> "episode", series |-> id,
                           episodes |-> {episodeCurrentId}]
    /\ fetches' = Remove(fetches, k)
    /\ UNCHANGED <<downloadsMap, downloadCurrentId, activeDownloads, tasks, files,
                   pendingCancel, hist, timers, batch, result>>

\* the pages a request may name
PageUrls == {SeriesUrl, EpisodeUrl(1), EpisodeUrl(2)}

\* an empty Registry
InitResolve ==
    /\ InitStore
    /\ arg = NoArg
    /\ seriesMap = << >>
    /\ episodesMap = << >>
    /\ seriesCurrentId = 1
    /\ episodeCurrentId = 1
    /\ hist = [i \in Ids |-> << >>]

NextResolve ==
    \/ \E url \in PageUrls, forceRefresh \in BOOLEAN : fetchUrlBegin(url, forceRefresh)
    \/ \E k \in 1 .. MaxPending, links \in SeriesPages : fetchUrlSeries(k, links)
    \/ \E k \in 1 .. MaxPending, page \in EpisodePages : fetchUrlEpisode(k, page)
    \/ \E e \in 1 .. MaxRecords :
          createDownload([episodeId |-> e, status |-> "queued", filePath |-> NoPath])

SpecResolve == InitResolve /\ [][NextResolve]_vars

\* the series page alone is resolved, again and again
SpecAgain ==
    InitResolve
    /\ [][\/ \E forceRefresh \in BOOLEAN : fetchUrlBegin(SeriesUrl, forceRefresh)
          \/ \E k \in 1 .. MaxPending, links \in SeriesPages : fetchUrlSeries(k, links)]_vars

\* ================================================================ claims
Last(h) == h[Len(h)]
IsCall(e, op, ret) == e.op = op /\ e.ret = ret

\* the invocations of downloadFile for Transfer i whose fetch has not been aborted
Fetching(i) == {t \in TaskIds : Live(tasks[t]) /\ ~tasks[t].aborted /\ tasks[t].downloadId = i}

FileAt(path) == path # NoPath /\ path \in DOMAIN files

AllowedEdges ==
    { <<"queued", "downloading">>, <<"downloading", "paused">>,
      <<"paused", "downloading">>, <<"downloading", "completed">>,
      <<"downloading", "cancelled">>, <<"paused", "cancelled">> }

\* C1: every change of a Transfer's persisted status is one of the edges
\* queued->downloading, downloading->paused, paused->downloading,
\* downloading->completed, downloading->cancelled, paused->cancelled, or leads
\* to error.
C1_OnlyAllowedEdges ==
    [][\A i \in DOMAIN downloadsMap :
          downloadsMap'[i].status # downloadsMap[i].status
          => \/ <<downloadsMap[i].status, downloadsMap'[i].status>> \in AllowedEdges
             \/ downloadsMap'[i].status = "error"]_vars

\* C2: cancellation is terminal: a Transfer whose persisted status is cancelled
\* keeps that status in every step.
C2_CancelledIsTerminal ==
    [][\A i \in DOMAIN downloadsMap :
          downloadsMap[i].status = "cancelled"
          => downloadsMap'[i].status = "cancelled"]_vars

\* C3: once cancelDownload has returned twice in a row for an existing Transfer,
\* then in every later state in which no Pause, Resume or Cancel has followed
\* (the start that the creating request had scheduled may still run, and the
\* callbacks of the fetch in flight may), the status is cancelled,
\* downloadedSize and progress are 0 and no file is at the destination path.
C3_CancelTwice ==
    \A i \in DOMAIN downloadsMap :
        (\E k \in 1 .. Len(hist[i]) - 1 :
            /\ IsCall(hist[i][k], "cancel", TRUE)
            /\ IsCall(hist[i][k + 1], "cancel", TRUE)
            /\ hist[i][k].was # "none"
            /\ \A j \in k + 2 .. Len(hist[i]) : hist[i][j].op = "start")
        => /\ downloadsMap[i].status = "cancelled"
           /\ downloadsMap[i].downloadedSize = 0
           /\ downloadsMap[i].progress = 0
           /\ ~FileAt(downloadsMap[i].filePath)

\* C4: per Transfer id at most one fetch is active, and it is the one the
\* registered handle can abort.
C4_OneFetchPerId ==
    \A i \in Ids :
        /\ Cardinality(Fetching(i)) <= 1
        /\ \A t \in Fetching(i) :
              i \in DOMAIN activeDownloads /\ activeDownloads[i].abortController = t

\* C5: of two pauseDownload calls on a downloading Transfer with no other call
\* between them, the first returns true and the second returns false.
C5_SecondPauseFalse ==
    \A i \in Ids : \A k \in 1 .. Len(hist[i]) - 1 :
        ( /\ IsCall(hist[i][k], "pause", TRUE)
          /\ hist[i][k].was = "downloading"
          /\ hist[i][k + 1].op = "pause" )
        => hist[i][k + 1].ret = FALSE

\* C6: after pauseDownload returned true, the persisted status is paused until
\* the next resumeDownload or cancelDownload on the id is called.
C6_PausedAfterPause ==
    \A i \in DOMAIN downloadsMap :
        (Idle /\ Len(hist[i]) > 0 /\ IsCall(Last(hist[i]), "pause", TRUE))
        => downloadsMap[i].status = "paused"

\* a step in which the call op on Transfer i returns
Returns(i, op) ==
    /\ Len(hist'[i]) = Len(hist[i]) + 1
    /\ hist'[i][Len(hist'[i])].op = op
RetOf(i) == hist'[i][Len(hist'[i])].ret

\* C7: pauseDownload returns false exactly when no handle is registered for the
\* id, and then the records, the handle map, the fetches and the files are
\* unchanged.
C7_PauseFalseIffNoHandle ==
    [][\A i \in Ids :
          Returns(i, "pause")
          => /\ (RetOf(i) = FALSE) <=> (i \notin DOMAIN activeDownloads)
             /\ (RetOf(i) = FALSE)
                => UNCHANGED <<downloadsMap, activeDownloads, tasks, files>>]_vars

C7_Witness ==
    \E i \in DOMAIN downloadsMap :
        /\ Len(hist[i]) > 1
        /\ IsCall(Last(hist[i]), "pause", FALSE)
        /\ Last(hist[i]).was = "error"

\* C8: resumeDownload returns false, changing nothing, whenever the Transfer
\* does not exist, its status is not paused, or its MediaItem is missing or has
\* no media URL; otherwise it returns true and moves the status from paused to
\* downloading.
C8_ResumeGuard ==
    [][\A i \in Ids :
          Returns(i, "resume")
          => /\ (RetOf(i) = FALSE)
                <=> \/ i \notin DOMAIN downloadsMap
                    \/ downloadsMap[i].status # "paused"
                    \/ downloadsMap[i].episodeId \notin DOMAIN episodesMap
                    \/ episodesMap[downloadsMap[i].episodeId].downloadUrl = ""
             /\ (RetOf(i) = FALSE)
                => UNCHANGED <<downloadsMap, activeDownloads, tasks, files>>
             /\ (RetOf(i) = TRUE)
                => /\ downloadsMap[i].status = "paused"
                   /\ downloadsMap'[i].status = "downloading"]_vars

\* a paused Transfer whose MediaItem a forced refresh removed is refused
C8_Witness ==
    \E i \in DOMAIN downloadsMap :
        /\ Len(hist[i]) > 0
        /\ IsCall(Last(hist[i]), "resume", FALSE)
        /\ Last(hist[i]).was = "paused"
        /\ downloadsMap[i].status = "paused"

\* C9: a fetch issued by resumeDownload while k > 0 bytes are on disk carries
\* Range: bytes=k- and its write stream appends.
C9_ResumeFromOffset ==
    \A t \in TaskIds :
        (Live(tasks[t]) /\ tasks[t].origin = "resume" /\ tasks[t].diskAtSpawn > 0)
        => /\ RangeOf(tasks[t]) = tasks[t].diskAtSpawn
           /\ tasks[t].pc = "stream" => tasks[t].flags = "a"

\* C10: a Transfer that was started, paused and resumed (each call succeeding,
\* no other call) and then completed has downloadedSize, totalSize and file
\* length equal to the full media size, as an uninterrupted download has.
C10_ResumedEqualsUninterrupted ==
    \A i \in DOMAIN downloadsMap :
        ( /\ downloadsMap[i].status = "completed"
          /\ Len(hist[i]) = 3
          /\ IsCall(hist[i][1], "start", TRUE)
          /\ IsCall(hist[i][2], "pause", TRUE)
          /\ IsCall(hist[i][3], "resume", TRUE) )
        => /\ downloadsMap[i].downloadedSize = MediaSize
           /\ downloadsMap[i].totalSize = MediaSize
           /\ FileAt(downloadsMap[i].filePath)
           /\ files[downloadsMap[i].filePath] = MediaSize

\* a step in which the rejection handler of the aborted invocation t runs
AbortHandled(t) == Live(tasks[t]) /\ tasks[t].aborted /\ tasks'[t] = FreeTask

HandleOf(ad, i) == IF i \in DOMAIN ad THEN ad[i] ELSE Null

\* C11: the handlers of a fetch that Pause or Cancel has aborted change neither
\* the Transfer's persisted record nor the handle registered for it.
C11_AbortedFetchIsSilent ==
    [][\A t \in TaskIds :
          AbortHandled(t)
          => /\ downloadsMap' = downloadsMap
             /\ HandleOf(activeDownloads', tasks[t].downloadId)
                  = HandleOf(activeDownloads, tasks[t].downloadId)]_vars

\* C12: once the persisted totalSize of a Transfer is set, its persisted
\* downloadedSize is at most totalSize.
C12_DownloadedAtMostTotal ==
    \A i \in DOMAIN downloadsMap :
        downloadsMap[i].totalSize # Null
        => downloadsMap[i].downloadedSize <= downloadsMap[i].totalSize

\* C13: the persisted progress is in 0..100 and, when totalSize is known and
\* positive, equals floor(downloadedSize / totalSize * 100).
C13_ProgressIsPercentage ==
    \A i \in DOMAIN downloadsMap :
        /\ downloadsMap[i].progress \in 0 .. 100
        /\ (downloadsMap[i].totalSize # Null /\ downloadsMap[i].totalSize > 0)
           => downloadsMap[i].progress
                = (downloadsMap[i].downloadedSize * 100) \div downloadsMap[i].totalSize

Active(status) == status \in {"downloading", "paused"}

\* C14: between two states in which the Transfer is active (downloading or
\* paused) its persisted downloadedSize does not decrease.
C14_DownloadedNeverDecreases ==
    [][\A i \in DOMAIN downloadsMap :
          (Active(downloadsMap[i].status) /\ Active(downloadsMap'[i].status))
          => downloadsMap'[i].downloadedSize >= downloadsMap[i].downloadedSize]_vars

\* C15: the step that moves a Transfer to completed sets progress to 100,
\* downloadedSize to the persisted totalSize and speed to 0, and leaves no
\* handle registered for the id.
C15_CompletionUpdate ==
    [][\A i \in DOMAIN downloadsMap :
          (downloadsMap[i].status # "completed" /\ downloadsMap'[i].status = "completed")
          => /\ downloadsMap'[i].progress = 100
             /\ downloadsMap'[i].downloadedSize = downloadsMap'[i].totalSize
             /\ downloadsMap'[i].speed = 0
             /\ i \notin DOMAIN activeDownloads']_vars

\* C16: when the fetch fails or answers with a status that is neither 2xx nor
\* 206, or the stream fails with an error that is no abort, the Transfer's
\* status becomes error with a non-empty error message and no handle stays
\* registered for the id; the failure issues no fetch, and no fetch is ever
\* issued but by a call of Start or Resume.
C16_FailureIsError ==
    [][\A t \in TaskIds :
          /\ (Live(tasks[t]) /\ ~tasks[t].aborted /\ (fetchFail(t) \/ streamError(t)))
             => /\ downloadsMap'[tasks[t].downloadId].status = "error"
                /\ downloadsMap'[tasks[t].downloadId].error # ""
                /\ tasks[t].downloadId \notin DOMAIN activeDownloads'
                /\ \A u \in TaskIds : Live(tasks'[u]) => Live(tasks[u])
          /\ (~Live(tasks[t]) /\ Live(tasks'[t]))
             => \/ Returns(tasks'[t].downloadId, "start")
                \/ Returns(tasks'[t].downloadId, "resume")]_vars

\* a Transfer whose only call was Start and whose fetch failed
C16_Witness ==
    \E i \in DOMAIN downloadsMap :
        /\ downloadsMap[i].status = "error"
        /\ downloadsMap[i].error = "Error"
        /\ downloadsMap[i].filePath # NoPath
        /\ Len(hist[i]) = 1
        /\ i \notin DOMAIN activeDownloads

\* the Transfer's MediaItem is missing or has no media URL, or its Collection
\* is missing
NoMedia(i) ==
    \/ downloadsMap[i].episodeId \notin DOMAIN episodesMap
    \/ episodesMap[downloadsMap[i].episodeId].downloadUrl = ""
    \/ episodesMap[downloadsMap[i].episodeId].seriesId \notin DOMAIN seriesMap

\* C17: startDownload on a Transfer whose MediaItem has no media URL, or whose
\* MediaItem or Collection is missing, moves the status to error with an error
\* message in the same step, registers no handle and issues no fetch.
C17_StartWithoutMedia ==
    [][\A i \in DOMAIN downloadsMap :
          (Returns(i, "start") /\ NoMedia(i))
          => /\ downloadsMap'[i].status = "error"
             /\ downloadsMap'[i].error # ""
             /\ downloadsMap'[i].filePath = downloadsMap[i].filePath
             /\ UNCHANGED <<activeDownloads, tasks, files>>]_vars

\* Start has run on a Transfer whose MediaItem has no media URL
C17_Witness ==
    \E i \in DOMAIN downloadsMap :
        /\ Len(hist[i]) > 0
        /\ Last(hist[i]).op = "start"
        /\ Last(hist[i]).was = "queued"
        /\ downloadsMap[i].episodeId \in DOMAIN episodesMap
        /\ episodesMap[downloadsMap[i].episodeId].downloadUrl = ""
        /\ downloadsMap[i].status = "error"

\* the sampled fields of a record
Sample(r) == <<r.progress, r.downloadedSize, r.speed>>

\* C20: a chunk changes the persisted progress, downloadedSize and speed only
\* when a sampling interval has elapsed since the previous sample; the end of
\* the stream writes the completion at once, whatever time has elapsed.
C20_SampledUpdates ==
    [][\A t \in TaskIds :
          /\ (/\ tasks[t].pc = "stream"
              /\ tasks'[t].delivered > tasks[t].delivered
              /\ Sample(downloadsMap'[tasks[t].downloadId])
                   # Sample(downloadsMap[tasks[t].downloadId]))
             => \A adv \in 0 .. SampleInterval :
                   chunk(t, tasks'[t].delivered - tasks[t].delivered, adv)
                   => tasks[t].timeDiff + adv >= SampleInterval
          /\ (tasks[t].pc = "stream" /\ tasks'[t].pc = "free" /\ streamEnd(t))
             => /\ downloadsMap'[tasks[t].downloadId].status = "completed"
                /\ downloadsMap'[tasks[t].downloadId].progress = 100
                /\ downloadsMap'[tasks[t].downloadId].speed = 0]_vars

\* every byte is delivered, the last ones less than an interval after the
\* previous sample: they are not in the record, and the end of the stream is next
C20_Witness ==
    \E t \in TaskIds :
        /\ tasks[t].pc = "stream" /\ ~tasks[t].aborted
        /\ tasks[t].delivered = MediaSize - tasks[t].resumePosition
        /\ tasks[t].timeDiff < SampleInterval
        /\ tasks[t].downloadedBytes > tasks[t].lastBytes
        /\ downloadsMap[tasks[t].downloadId].downloadedSize < tasks[t].downloadedBytes

\* the Transfers created for episode e
TransfersOf(e) == {d \in DOMAIN downloadsMap : downloadsMap[d].episodeId = e}

\* C19: in a series download every episode of the series is handled, whatever
\* the resolution of its siblings gave: an episode that has a media URL after
\* the attempt gets exactly one Transfer, queued until its scheduled start
\* runs, and an episode without one gets none.
C19_BatchSkipsUnresolved ==
    /\ Len(batch.seen) + Len(batch.todo) = Len(batch.all)
    /\ \A k \in 1 .. Len(batch.seen) : batch.seen[k].id = batch.all[k].id
    /\ \A k \in 1 .. Len(batch.seen) :
        LET e == batch.seen[k]
        IN  /\ Cardinality(TransfersOf(e.id)) = IF e.downloadUrl # "" THEN 1 ELSE 0
            /\ \A d \in TransfersOf(e.id) :
                  \/ d \in timers /\ downloadsMap[d].status = "queued"
                  \/ d \notin timers /\ Len(hist[d]) > 0 /\ hist[d][1].op = "start"

\* the batch is over: the resolution of the first episode failed and it got no
\* Transfer, the second episode got one
C19_Witness ==
    /\ batch.todo = << >>
    /\ Len(batch.seen) = 2
    /\ batch.seen[1].downloadUrl = ""
    /\ batch.seen[2].downloadUrl # ""
    /\ TransfersOf(batch.seen[1].id) = {}
    /\ TransfersOf(batch.seen[2].id) # {}

\* a step of Pause, Resume or Cancel on Transfer a, or the completion or the
\* failure of a fetch of Transfer a
StepOn(a) ==
    \/ Returns(a, "pause") \/ Returns(a, "resume") \/ Returns(a, "cancel")
    \/ cancelBegin(a)
    \/ \E t \in TaskIds :
          /\ tasks[t].downloadId = a
          /\ streamEnd(t) \/ fetchFail(t) \/ streamError(t)

\* the length of the file at path p, Null when there is none
FileLen(fs, p) == IF p \in DOMAIN fs THEN fs[p] ELSE Null

\* Transfer b has written the file at its destination path: its stream is
\* open, or it has completed
HasFile(b) ==
    /\ downloadsMap[b].filePath # NoPath
    /\ \/ downloadsMap[b].status = "completed"
       \/ \E u \in TaskIds : tasks[u].downloadId = b /\ tasks[u].pc = "stream"

\* C18: a Pause, Resume, Cancel, completion or error on Transfer a leaves the
\* record and the handle of every other Transfer b unchanged, and the file at
\* b's destination path once b has written it, also when a and b are
\* Transfers of the same MediaItem.
C18_OtherTransferUntouched ==
    [][\A a \in PairIds, b \in DOMAIN downloadsMap :
          (a # b /\ StepOn(a))
          => /\ downloadsMap'[b] = downloadsMap[b]
             /\ HandleOf(activeDownloads', b) = HandleOf(activeDownloads, b)
             /\ HasFile(b)
                => FileLen(files', downloadsMap[b].filePath)
                     = FileLen(files, downloadsMap[b].filePath)]_vars

\* C21: every Transfer record enters the Registry with status queued, progress
\* 0, downloadedSize 0 and no totalSize, whatever status the creation request
\* carried; and no step removes a Transfer record from the Registry.
C21_CreatedQueuedNeverRemoved ==
    [][/\ \A i \in DOMAIN downloadsMap' \ DOMAIN downloadsMap :
             /\ downloadsMap'[i].status = "queued"
             /\ downloadsMap'[i].progress = 0
             /\ downloadsMap'[i].downloadedSize = 0
             /\ downloadsMap'[i].totalSize = Null
       /\ DOMAIN downloadsMap \subseteq DOMAIN downloadsMap']_vars

\* a Transfer was created, started and cancelled: its record is still there
C21_Witness ==
    \E i \in DOMAIN downloadsMap :
        /\ Len(hist[i]) > 1
        /\ hist[i][1].op = "start" /\ hist[i][1].was = "queued"
        /\ IsCall(Last(hist[i]), "cancel", TRUE)
        /\ downloadsMap[i].status = "cancelled"

\* C22: Control answers 200 with the record as it is after the call exactly
\* when the pauseDownload, resumeDownload or cancelDownload it called returned
\* true, and 400 when it returned false; for an id with no record it answers
\* 404, the engine is not called, and no record, handle or file changes.
C22_ControlReportsOutcome ==
    [][\A i \in Ids :
          /\ (hist'[i] # hist[i] /\ Last(hist'[i]).op \in ControlActions)
             => /\ Last(hist'[i]).was # "none"
                /\ response'.downloadId = i
                /\ response'.action = Last(hist'[i]).op
                /\ response'.code = IF Last(hist'[i]).ret THEN 200 ELSE 400
                /\ Last(hist'[i]).ret => response'.download = downloadsMap'[i]
                /\ ~Last(hist'[i]).ret => response'.download = NoRecord
          /\ (i \notin DOMAIN downloadsMap /\ i \notin DOMAIN downloadsMap')
             => /\ UNCHANGED <<downloadsMap, activeDownloads, tasks, files, hist,
                               pendingCancel>>
                /\ response' # response
                   => response'.code = 404 /\ response'.downloadId = i
          /\ (response' # response /\ response'.downloadId = i)
             => \/ response'.code = 404 /\ i \notin DOMAIN downloadsMap
                \/ response'.code \in {200, 400} /\ hist'[i] # hist[i]]_vars

\* Control was asked to resume a Transfer that is downloading and answered 400
C22_Witness ==
    /\ response.code = 400
    /\ response.action = "resume"
    /\ response.downloadId \in DOMAIN downloadsMap
    /\ Len(hist[response.downloadId]) > 1
    /\ IsCall(Last(hist[response.downloadId]), "resume", FALSE)
    /\ Last(hist[response.downloadId]).was = "downloading"

\* C23: in every reachable state the MediaItem that a Transfer references is
\* in the Registry, whatever pages were resolved, a forced refresh of its
\* Collection included.
C23_TransferHasMediaItem ==
    \A i \in DOMAIN downloadsMap : downloadsMap[i].episodeId \in DOMAIN episodesMap

\* no two records of the map m have the same sourceUrl
UniqueSourceUrl(m) ==
    \A a, b \in DOMAIN m : a # b => m[a].sourceUrl # m[b].sourceUrl

\* C24: in every reachable state no two Collections have the same source URL
\* and no two MediaItems have the same source URL, after any sequence or
\* interleaving of requests to resolve series and episode pages.
C24_SourceUrlsUnique ==
    /\ UniqueSourceUrl(seriesMap)
    /\ UniqueSourceUrl(episodesMap)

\* startDownload has written the destination path of Transfer j
StartedOk(j) == downloadsMap[j].status \in {"downloading", "paused", "completed"}

\* C25: the destination path that startDownload writes is made of the
\* sanitized title of the Collection, the season number (1 when there is none)
\* and the episode number (0 when there is none), and of nothing else: it is
\* the path of every other started Transfer of the same MediaItem, whatever
\* the ids of the Transfers and the paths stored at their creation.
C25_PathFromTitleSeasonEpisode ==
    [][\A i \in DOMAIN downloadsMap :
          (Returns(i, "start") /\ ~NoMedia(i))
          => LET episode == episodesMap[downloadsMap[i].episodeId]
                 series  == seriesMap[episode.seriesId]
             IN  /\ downloadsMap'[i].filePath =
                       << sanitizePathName(series.title),
                          IF episode.season \in {Null, 0} THEN 1 ELSE episode.season,
                          IF episode.episodeNumber = Null THEN 0 ELSE episode.episodeNumber >>
                 /\ \A j \in DOMAIN downloadsMap :
                       (/\ j # i
                        /\ downloadsMap[j].episodeId = downloadsMap[i].episodeId
                        /\ StartedOk(j))
                       => downloadsMap'[i].filePath = downloadsMap[j].filePath]_vars

\* two Transfers of episode 1 of "My S" are started: both have the path
\* my-s/season-1/episode-1
C25_Witness ==
    /\ DOMAIN downloadsMap = {1, 2}
    /\ \A i \in {1, 2} :
          /\ downloadsMap[i].episodeId = 1
          /\ Len(hist[i]) > 0 /\ hist[i][1].op = "start"
          /\ StartedOk(i)
          /\ downloadsMap[i].filePath = << <<"m", "y", "-", "s">>, 1, 1 >>

endsWith(s, sub) == Len(sub) <= Len(s) /\ SubSeq(s, Len(s) - Len(sub) + 1, Len(s)) = sub

\* the URL names a file with a known video extension: what precedes its query
\* and fragment ends with the extension, in either case of the letters
HasVideoExtension(url) ==
    LET file == SubSeq(url, 1, indexOfAny(url, {"?", "#"}, 1) - 1)
    IN  \E ext \in validExtensions : endsWith(lower(file), ext)

\* C26: isValidVideoUrl accepts a string exactly when it has at least 10
\* characters, begins with http:// or https://, names a file with a known
\* video extension or has one of the query parameters file, source, video, and
\* parses as a URL; it rejects "", "yeni", "ftp://x.mp4" and
\* "https://x.com/noext" and accepts "https://cdn.example.com/video/ep1.mp4".
C26_ValidExactlyWhenFourChecks ==
    /\ result.fn = "isValidVideoUrl"
       => result.value = ( /\ Len(arg.url) >= MinUrlLength
                           /\ startsWith(arg.url, Http) \/ startsWith(arg.url, Https)
                           /\ HasVideoExtension(arg.url) \/ hasVideoParams(arg.url)
                           /\ urlParses(arg.url) )
    /\ ~isValidVideoUrl(<< >>)
    /\ ~isValidVideoUrl(<<"y", "e", "n", "i">>)
    /\ ~isValidVideoUrl(<<"f", "t", "p", ":", "/", "/", "x", ".", "m", "p", "4">>)
    /\ ~isValidVideoUrl(Https \o <<"x", ".", "c", "o", "m", "/", "n", "o", "e", "x", "t">>)
    /\ isValidVideoUrl(Https \o <<"c", "d", "n", ".", "e", "x", "a", "m", "p", "l", "e",
                                   ".", "c", "o", "m", "/", "v", "i", "d", "e", "o", "/",
                                   "e", "p", "1", ".", "m", "p", "4">>)

\* the URL, read as it was given, has one of the markers
HasMarker(url, markers) == \E m \in markers : includes(url, m)

TierOrder(doc) ==
    <<videoSrc(doc)>> \o doc.sources
    \o [k \in 1 .. Len(doc.scripts) |-> match(doc.scripts[k])]

\* the candidates of the frames that were fetched, frame after frame
RECURSIVE FrameOrder(_)
FrameOrder(iframes) ==
    IF iframes = << >> THEN << >>
    ELSE IF Head(iframes).src /\ Head(iframes).ok
         THEN TierOrder(Head(iframes).doc) \o FrameOrder(Tail(iframes))
    ELSE FrameOrder(Tail(iframes))

\* C28: parseEpisodePage returns the first valid candidate in the order:
\* frames in document order, within a frame the media element, then the
\* source elements, then the script matches, and after the frames the same
\* three tiers of the main page; a frame whose fetch fails is passed over.
C28_FirstValidInPriorityOrder ==
    result.fn = "parseEpisodePage"
    => result.value.downloadUrl
          = firstValid(FrameOrder(arg.page.iframes) \o TierOrder(arg.page.main))

\* every candidate of a document: the media element, the source elements and
\* each match of each pattern in each script
Candidates(doc) ==
    {videoSrc(doc)} \cup {doc.sources[k] : k \in 1 .. Len(doc.sources)}
    \cup UNION {{doc.scripts[k].mp4, doc.scripts[k].m3u8, doc.scripts[k].file,
                 doc.scripts[k].source} : k \in 1 .. Len(doc.scripts)}

\* C29: an invalid candidate never stops the search of parseEpisodePage: when
\* a fetched frame or the main page has a candidate (media element, source
\* element or a match of any pattern in a script) that is a valid video URL,
\* the result is not empty.
C29_ValidCandidateIsFound ==
    result.fn = "parseEpisodePage"
    => LET docs == {arg.page.main}
                   \cup {arg.page.iframes[k].doc :
                            k \in {j \in 1 .. Len(arg.page.iframes) :
                                      arg.page.iframes[j].src /\ arg.page.iframes[j].ok}}
       IN  (\E doc \in docs : \E url \in Candidates(doc) :
               url # << >> /\ isValidVideoUrl(url))
           => result.value.downloadUrl # << >>

\* C30: what parseEpisodePage returns is the empty string or a valid video
\* URL, and the call never ends in an error: a page with no valid candidate
\* gives the empty string.
C30_EmptyOrValidNeverThrows ==
    result.fn = "parseEpisodePage"
    => /\ ~result.value.threw
       /\ \/ result.value.downloadUrl = << >>
          \/ isValidVideoUrl(result.value.downloadUrl)

\* a page whose frame could not be fetched and whose own candidates are all
\* invalid was searched: the empty string came back
C30_Witness ==
    /\ result.fn = "parseEpisodePage"
    /\ \E k \in 1 .. Len(arg.page.iframes) :
          arg.page.iframes[k].src /\ ~arg.page.iframes[k].ok
    /\ Candidates(arg.page.main) \ {<< >>} # {}
    /\ result.value = [threw |-> FALSE, downloadUrl |-> << >>]

\* C33: sanitizePathName is idempotent, and what it returns has no character
\* of / \ ? % * : | " < >, no whitespace and no upper-case letter.
C33_SanitizeIdempotent ==
    result.fn = "sanitizePathName"
    => /\ sanitizePathName(result.value) = result.value
       /\ \A k \in 1 .. Len(result.value) :
             /\ result.value[k] \notin Hostile \cup Whitespace
             /\ toLowerCase(result.value[k]) = result.value[k]

\* a name with a hostile character, whitespace and a capital was sanitized
C33_Witness ==
    /\ result.fn = "sanitizePathName"
    /\ \E i, j, k \in 1 .. Len(arg.name) :
          /\ arg.name[i] \in Hostile
          /\ arg.name[j] \in Whitespace
          /\ toLowerCase(arg.name[k]) # arg.name[k]
    /\ result.value # arg.name

\* C34: sanitizePathName("My Show: Part 1") is "my-show-part-1": a hostile
\* character followed by whitespace gives one hyphen, not two.
C34_HostileThenSpaceOneHyphen ==
    result.fn = "sanitizePathName"
    => /\ arg.name = <<"M", "y", " ", "S", "h", "o", "w", ":", " ", "P", "a", "r", "t",
                       " ", "1">>
          => result.value = <<"m", "y", "-", "s", "h", "o", "w", "-", "p", "a", "r", "t",
                              "-", "1">>
       /\ ( /\ Len(arg.name) = 4
             /\ arg.name[1] = "b" /\ arg.name[4] = "b"
             /\ arg.name[2] \in Hostile /\ arg.name[3] \in Whitespace )
          => result.value = <<"b", "-", "b">>

\* C31: the URLs of the list parseEpisodeList returns are absolute and
\* pairwise distinct; they are the full URLs of the anchors with an href that
\* the first selector or filter with at least one anchor gives, an anchor
\* whose full URL is already in the list being passed over.
C31_UrlsAbsoluteDistinct ==
    result.fn = "parseEpisodeList"
    => LET episodes == result.value
           chosen == episodeElements(arg.anchors)
       IN  /\ \A k \in 1 .. Len(episodes) :
                 startsWith(episodes[k].sourceUrl, Http)
                 \/ startsWith(episodes[k].sourceUrl, Https)
           /\ \A j, k \in 1 .. Len(episodes) :
                 episodes[j].sourceUrl = episodes[k].sourceUrl => j = k
           /\ {episodes[k].sourceUrl : k \in 1 .. Len(episodes)}
                 = {fullUrl(chosen[k].href) : k \in {j \in 1 .. Len(chosen) :
                                                        chosen[j].href # << >>}}

\* C32: the title parseSeriesInfo returns is the first text that is not empty
\* in the order .video-title, h1.title, cleaned title tag, title-cased last
\* part of the URL, a later text being used only when every earlier one is
\* empty; a page that has only <title>Watch Foo Bar | WCO</title> gets the
\* title "Foo Bar".
C32_TitleFirstNonEmpty ==
    result.fn = "parseSeriesInfo"
    => LET chain == titleCandidates(arg.page, arg.sourceUrl)
       IN  /\ \E k \in 1 .. 4 :
                 /\ result.value.title = chain[k]
                 /\ \A j \in 1 .. k - 1 : chain[j] = << >>
                 /\ chain[k] # << >> \/ k = 4
           /\ ( /\ arg.page.videoTitle = << >>
                /\ arg.page.h1Title = << >>
                /\ arg.page.title = <<"W", "a", "t", "c", "h", " ", "F", "o", "o", " ",
                                      "B", "a", "r", " ", "|", " ", "W", "C", "O">> )
              => result.value.title = <<"F", "o", "o", " ", "B", "a", "r">>

\* a page with only the title tag "Watch Foo Bar | WCO" was read: "Foo Bar"
C32_Witness ==
    /\ result.fn = "parseSeriesInfo"
    /\ arg.page.videoTitle = << >>
    /\ arg.page.h1Title = << >>
    /\ Len(arg.page.title) = 19
    /\ result.value.title = <<"F", "o", "o", " ", "B", "a", "r">>

\* C35: whenever no call is under way, activeDownloads has an entry for a
\* Transfer only if the status of the Transfer is downloading or paused; after
\* completion, error or Cancel, also once the handlers of the aborted fetch
\* have run, the Transfer has no entry.
C35_HandleOnlyWhileActive ==
    Idle => \A i \in DOMAIN activeDownloads :
               /\ i \in DOMAIN downloadsMap
               /\ downloadsMap[i].status \in {"downloading", "paused"}

\* C36: no two Transfers whose status is downloading or paused at the same
\* time have the same destination file path, so no file is written for two
\* Transfers at once and Cancel of one never deletes the file of another.
C36_ActivePathsDistinct ==
    \A i, j \in DOMAIN downloadsMap :
        ( /\ i # j
          /\ downloadsMap[i].status \in {"downloading", "paused"}
          /\ downloadsMap[j].status \in {"downloading", "paused"} )
        => downloadsMap[i].filePath # downloadsMap[j].filePath

\* C37: when the media server answers and every pending callback runs, a
\* Transfer whose status is downloading later has the status completed,
\* error, paused or cancelled: no Start, Pause, Resume and Cancel leave it
\* downloading for ever with no fetch in flight.
C37_DownloadingEventuallyLeaves ==
    \A i \in Ids :
        (i \in DOMAIN downloadsMap /\ downloadsMap[i].status = "downloading")
        ~> (i \in DOMAIN downloadsMap
            /\ downloadsMap[i].status \in {"completed", "error", "paused", "cancelled"})

\* a Transfer that was started, paused and resumed has ended: completed
C37_Witness ==
    \E i \in DOMAIN downloadsMap :
        /\ downloadsMap[i].status = "completed"
        /\ Len(hist[i]) = 3
        /\ hist[i][3].op = "resume" /\ hist[i][3].ret
        /\ \A t \in TaskIds : ~Live(tasks[t])

\* C38: a request to resolve a series URL without forceRefresh, for a series
\* that was found when the request began and has at least one episode when
\* its page arrives, creates, updates and deletes no series and no episode,
\* and answers with the id of that series and with the episodes it had.
C38_ResolveAgainChangesNothing ==
    [][\A k \in 1 .. MaxPending :
          ( /\ k <= Len(fetches)
            /\ fetches' = Remove(fetches, k)
            /\ fetches[k].type = "series"
            /\ ~fetches[k].forceRefresh
            /\ fetches[k].series # Null
            /\ \E e \in DOMAIN episodesMap : episodesMap[e].seriesId = fetches[k].series )
          => /\ seriesMap' = seriesMap
             /\ episodesMap' = episodesMap
             /\ seriesCurrentId' = seriesCurrentId
             /\ episodeCurrentId' = episodeCurrentId
             /\ response'.series = fetches[k].series
             /\ response'.episodes
                   = {e \in DOMAIN episodesMap : episodesMap[e].seriesId = fetches[k].series}
    ]_vars

\* a series that was stored with two episodes was resolved again without
\* forceRefresh
C38_Witness ==
    /\ arg.fn = "fetch-url"
    /\ ~arg.forceRefresh
    /\ arg.series # Null
    /\ Cardinality(arg.episodes) = 2
    /\ response.type = "series"
    /\ response.series = arg.series
    /\ response.episodes = arg.episodes

====
